---- MODULE Spec2Model ----
(***************************************************************************)
(* Pesticide-analyte reference reconciliation pipeline of                  *)
(* PopHealth-Observatory: name normalizers, cascading reference loader,    *)
(* minimal-reference builder, CDC classification step and the              *)
(* classification matcher.                                                 *)
(*                                                                         *)
(* Text values (names, descriptions, CAS numbers) are sequences of         *)
(* one-character strings, so that the normalizers and substring tests of   *)
(* the code are computed character by character.  File paths are atomic    *)
(* strings: the code only compares them and tests their existence.         *)
(***************************************************************************)
EXTENDS Integers, Sequences, FiniteSets, TLC

VARIABLES
    fs,          \* reference files on disk: path -> rows, or Absent
    loaded,      \* outcome of the last load_analyte_reference call since fs changed
    normIn,      \* normalizer study: the input string
    normOnce,    \* normalizer study: each normalizer applied once
    normTwice,   \* normalizer study: each normalizer applied twice
    matchIn,     \* matcher study: the inputs of find_classification_candidates
    matchOut,    \* matcher study: its result and call counts
    expand,      \* the synonym expansion run: its position and local variables
    net,         \* the requests sent to PubChem and the sleeps, in order
    today,       \* the day datetime.now() falls on, counted from 1
    runs,        \* the evidence-logging runs made so far today
    evidence,    \* data/reference/evidence: day -> unclassified_<date>.csv, or Absent
    apiCall,     \* lookup study: the function called and its arguments
    apiResult    \* lookup study: what it returned

enrichVars == <<today, runs, evidence>>

apiVars == <<apiCall, apiResult>>

vars == <<fs, loaded, normIn, normOnce, normTwice, matchIn, matchOut, expand, net,
          enrichVars, apiVars>>

(***************************************************************************)
(* Bounds                                                                  *)
(***************************************************************************)
MaxStrLen == 5

MaxFileRows == 2

MaxCdcLen == 2

MaxDiscRows == 2

MaxCdcRows == 1

MaxDays == 2

MaxRunsPerDay == 2

\* longest list of reference records given to a lookup
MaxAnalytes == 3

\* largest limit given to suggest_analytes
MaxLimit == 2

\* most rows of a curated table given to the CAS join
MaxCuratedRows == 2

(***************************************************************************)
(* Characters and Python string primitives                                 *)
(***************************************************************************)
UpperChars == <<"A","B","C","D","E","F","G","H","I","J","K","L","M",
                "N","O","P","Q","R","S","T","U","V","W","X","Y","Z">>

LowerChars == <<"a","b","c","d","e","f","g","h","i","j","k","l","m",
                "n","o","p","q","r","s","t","u","v","w","x","y","z">>

DigitChars == {"0","1","2","3","4","5","6","7","8","9"}

SpaceChars == {" ", "\t", "\n", "\r"}

Range(f) == {f[i] : i \in DOMAIN f}

UpperSet == Range(UpperChars)

LowerOf == [c \in UpperSet |-> LowerChars[CHOOSE i \in 1..26 : UpperChars[i] = c]]

\* str.lower() on one character
LowerChar(c) == IF c \in UpperSet THEN LowerOf[c] ELSE c

\* str.lower()
Lower(s) == [i \in 1..Len(s) |-> LowerChar(s[i])]

LowerAlnumSet == Range(LowerChars) \cup DigitChars

WordCharSet == Range(LowerChars) \cup Range(UpperChars) \cup DigitChars \cup {"_"}

\* regex class [a-z0-9]
IsLowerAlnum(c) == c \in LowerAlnumSet

\* regex class \w
IsWordChar(c) == c \in WordCharSet

\* regex class \s, and the characters str.strip() removes
IsSpaceChar(c) == c \in SpaceChars

\* Python: sub in s
Contains(s, sub) ==
    \E i \in 0..(Len(s) - Len(sub)) : SubSeq(s, i + 1, i + Len(sub)) = sub

\* str.lstrip()
RECURSIVE LStrip(_)
LStrip(s) ==
    IF s # <<>> /\ IsSpaceChar(Head(s)) THEN LStrip(Tail(s)) ELSE s

\* str.rstrip()
RECURSIVE RStrip(_)
RStrip(s) ==
    IF s # <<>> /\ IsSpaceChar(s[Len(s)]) THEN RStrip(SubSeq(s, 1, Len(s) - 1)) ELSE s

\* str.strip()
Strip(s) == RStrip(LStrip(s))

\* re.sub(r"\s+", " ", s)
RECURSIVE CollapseSpaces(_)
CollapseSpaces(s) ==
    IF s = <<>> THEN <<>>
    ELSE IF IsSpaceChar(Head(s))
         THEN <<" ">> \o CollapseSpaces(LStrip(s))
         ELSE <<Head(s)>> \o CollapseSpaces(Tail(s))

(***************************************************************************)
(* Name normalizers                                                        *)
(***************************************************************************)
KeepLowerAlnum(c) == IsLowerAlnum(c)

\* pesticide_context._normalize: re.sub(r"[^a-z0-9]", "", s.lower())
_normalize(s) == SelectSeq(Lower(s), KeepLowerAlnum)

\* build_minimal_pesticide_reference._normalize_for_matching
_normalize_for_matching(s) == SelectSeq(Lower(s), KeepLowerAlnum)

KeepNameChar(c) == IsWordChar(c) \/ IsSpaceChar(c) \/ c \in {",", "-"}

\* a reordering of _normalize_name that strips before the punctuation is removed
_normalize_name_StripFirst(name) ==
    IF name = <<>> THEN <<>>
    ELSE CollapseSpaces(SelectSeq(Strip(Lower(name)), KeepNameChar))

\* enrich_classification_round._normalize_name
_normalize_name(name) ==
    IF name = <<>> THEN <<>>
    ELSE Strip(CollapseSpaces(SelectSeq(Lower(name), KeepNameChar)))

(***************************************************************************)
(* Normalizer study: every string over NormAlphabet up to MaxStrLen is     *)
(* normalized once and then once more by each of the three normalizers.    *)
(***************************************************************************)
\* one character per class the normalizers distinguish: upper-case letter,
\* lower-case letter, kept punctuation, removed punctuation, underscore,
\* blank, other whitespace
NormAlphabet == {"A", "b", "-", ".", "_", " ", "\t"}

NormStrings == UNION {[1..n -> NormAlphabet] : n \in 0..MaxStrLen}

NoResult == [set |-> FALSE]

NormIdle == normIn = <<>> /\ normOnce = NoResult /\ normTwice = NoResult

MatchIdle == matchIn = NoResult /\ matchOut = NoResult

\* no synonym expansion run has started
NoExpansion ==
    [pc |-> "idle", cas_to_analyte |-> <<>>, i |-> 0, attempt |-> 0, synonym_map |-> <<>>,
     response |-> "none"]

ExpandIdle == expand = NoExpansion /\ net = <<>>

Days == 1..MaxDays

\* the first day, with no evidence file written yet
EnrichIdle == today = 1 /\ runs = 0 /\ evidence = [d \in Days |-> [exists |-> FALSE]]

ApiIdle == apiCall = NoResult /\ apiResult = NoResult

NormalizeOnce ==
    /\ ~normOnce.set
    /\ normOnce' = [set |-> TRUE,
                    strict |-> _normalize(normIn),
                    matching |-> _normalize_for_matching(normIn),
                    name |-> _normalize_name(normIn)]
    /\ UNCHANGED <<normIn, normTwice>>

NormalizeTwice ==
    /\ normOnce.set
    /\ ~normTwice.set
    /\ normTwice' = [set |-> TRUE,
                     strict |-> _normalize(normOnce.strict),
                     matching |-> _normalize_for_matching(normOnce.matching),
                     name |-> _normalize_name(normOnce.name)]
    /\ UNCHANGED <<normIn, normOnce>>

(***************************************************************************)
(* Reference files                                                         *)
(***************************************************************************)
DATA_REFERENCE_DIR == "data/reference"

REFERENCE_CSV == "data/reference/minimal/pesticide_reference_minimal.csv"

REFERENCE_CSV_CLASSIFIED == "data/reference/classified/pesticide_reference_classified.csv"

REFERENCE_CSV_SHIM == "data/reference/pesticide_reference.csv"

FLAT_MINIMAL_CSV == "data/reference/pesticide_reference_minimal.csv"

FLAT_CLASSIFIED_CSV == "data/reference/pesticide_reference_classified.csv"

\* the curated CAS table of the builder, which the glob pattern also matches
CURATED_CSV == "data/reference/legacy/pesticide_reference_curated.csv"

\* a quarantined historical artifact that the glob pattern matches
LEGACY_CSV == "data/reference/legacy/pesticide_reference_legacy.csv"

\* a caller-supplied file outside the reference root
CUSTOM_CSV == "custom/my_reference.csv"

Paths == {REFERENCE_CSV, REFERENCE_CSV_CLASSIFIED, REFERENCE_CSV_SHIM, FLAT_MINIMAL_CSV,
          FLAT_CLASSIFIED_CSV, CURATED_CSV, LEGACY_CSV, CUSTOM_CSV}

\* the synonym map written by expand_synonyms_via_pubchem.py
PUBCHEM_SYNONYMS_CSV == "data/reference/config/pubchem_synonyms.csv"

\* files of the pipeline that are not analyte references
WorkPaths == {PUBCHEM_SYNONYMS_CSV}

AllPaths == Paths \cup WorkPaths

\* files under DATA_REFERENCE_DIR whose name matches "pesticide_reference_*.csv"
GlobMatches == {REFERENCE_CSV, REFERENCE_CSV_CLASSIFIED, FLAT_MINIMAL_CSV,
                FLAT_CLASSIFIED_CSV, CURATED_CSV, LEGACY_CSV}

Absent == [exists |-> FALSE]

File(rows) == [exists |-> TRUE, rows |-> rows]

\* Path.exists()
Exists(files, p) == files[p].exists

Present(files) == {p \in Paths : Exists(files, p)}

\* the arrangements of a finite set
RECURSIVE Perms(_)
Perms(S) ==
    IF S = {} THEN {<<>>}
    ELSE UNION {{<<x>> \o rest : rest \in Perms(S \ {x})} : x \in S}

\* The listings DATA_REFERENCE_DIR.rglob("pesticide_reference_*.csv") may
\* produce: the matching files that exist, in an order the file system
\* chooses.  The loader skips a listed file that is already a candidate, so
\* the files of the fixed candidate head are listed first, in one order, and
\* the other files follow in every possible order.
RglobScans(files) ==
    LET found == Present(files) \cap GlobMatches
        head == {REFERENCE_CSV, REFERENCE_CSV_CLASSIFIED, FLAT_MINIMAL_CSV, FLAT_CLASSIFIED_CSV}
        first == CHOOSE f \in Perms(found \cap head) : TRUE
    IN  {first \o rest : rest \in Perms(found \ head)}

(***************************************************************************)
(* Text constants of the reference data                                    *)
(***************************************************************************)
s_URX3PBA == <<"U","R","X","3","P","B","A">>

s_3PBA == <<"3","-","P","B","A">>

s_cas3PBA == <<"7","0","4","5","8","-","8","2","-","3">>

s_URXDMP == <<"U","R","X","D","M","P">>

s_DMP == <<"D","M","P">>

s_casDMP == <<"8","1","4","-","2","4","-","8">>

s_LBXPDE == <<"L","B","X","P","D","E">>

s_ppDDE == <<"p",",","p","'","-","D","D","E">>

s_casDDE == <<"7","2","-","5","5","-","9">>

s_3PBAflat == <<"3","P","B","A">>

(***************************************************************************)
(* load_analyte_reference                                                  *)
(***************************************************************************)
\* dict.get(key, default) on a csv.DictReader row
Get(row, key, default) == IF key \in DOMAIN row THEN row[key] ELSE default

\* the first candidate that exists, or path when none does
FirstExisting(candidates, path, files) ==
    IF \E i \in 1..Len(candidates) : Exists(files, candidates[i])
    THEN candidates[CHOOSE i \in 1..Len(candidates) :
                        /\ Exists(files, candidates[i])
                        /\ \A j \in 1..(i - 1) : ~Exists(files, candidates[j])]
    ELSE path

\* the candidate list with the minimal file tried before the classified one
BaseCandidates_MinimalFirst ==
    <<REFERENCE_CSV, REFERENCE_CSV_CLASSIFIED, REFERENCE_CSV_SHIM,
      FLAT_MINIMAL_CSV, FLAT_CLASSIFIED_CSV>>

\* the fixed head of the candidate list
BaseCandidates ==
    <<REFERENCE_CSV_CLASSIFIED, REFERENCE_CSV, REFERENCE_CSV_SHIM,
      FLAT_MINIMAL_CSV, FLAT_CLASSIFIED_CSV>>

\* the candidate list: the fixed head, then the scanned files not yet in it
CascadeCandidates(scan) ==
    LET NotInBase(p) == p \notin Range(BaseCandidates)
    IN  BaseCandidates \o SelectSeq(scan, NotInBase)

\* the cascade, applied when the caller passes the default path
ResolveCascade(path, scan, files) ==
    IF path = REFERENCE_CSV
    THEN FirstExisting(CascadeCandidates(scan), path, files)
    ELSE path

\* a loader without the shim fallback
FallbackCandidates_None == <<>>

FallbackCandidates == <<REFERENCE_CSV_SHIM, FLAT_MINIMAL_CSV>>

\* the fallback for a path that does not exist
ResolveFallback(path, files) ==
    IF ~Exists(files, path)
    THEN FirstExisting(FallbackCandidates, path, files)
    ELSE path

\* PesticideAnalyte(...) built from one CSV row
ParseRow(row) ==
    [variable_name |-> Get(row, "variable_name", <<>>),
     analyte_name |-> Get(row, "analyte_name", <<>>),
     cas_rn |-> Get(row, "cas_rn", <<>>),
     cas_verified_source |-> Get(row, "cas_verified_source", ""),
     matrix |-> Get(row, "matrix", "unknown"),
     unit |-> Get(row, "unit", ""),
     cycle_first |-> Get(row, "cycle_first", 0),
     cycle_last |-> Get(row, "cycle_last", 0),
     cycle_count |-> Get(row, "cycle_count", 0),
     data_file_description |-> Get(row, "data_file_description", ""),
     chemical_class |-> Get(row, "chemical_class", ""),
     chemical_subclass |-> Get(row, "chemical_subclass", ""),
     classification_source |-> Get(row, "classification_source", "")]

ParseRows(rows) == [i \in 1..Len(rows) |-> ParseRow(rows[i])]

\* the essential analytes of the packaging safeguard
needed ==
    <<[var |-> s_URX3PBA, name |-> s_3PBA, cas |-> s_cas3PBA,
       desc |-> "Pyrethroid metabolite (placeholder cycles)", matrix |-> "urine"],
      [var |-> s_URXDMP, name |-> s_DMP, cas |-> s_casDMP,
       desc |-> "Organophosphate metabolite (Dimethylphosphate)", matrix |-> "urine"]>>

Placeholder(n) ==
    [variable_name |-> n.var,
     analyte_name |-> n.name,
     cas_rn |-> n.cas,
     cas_verified_source |-> "",
     matrix |-> n.matrix,
     unit |-> "ug/L",
     cycle_first |-> 1999,
     cycle_last |-> 2018,
     cycle_count |-> 0,
     data_file_description |-> n.desc,
     chemical_class |-> "",
     chemical_subclass |-> "",
     classification_source |-> ""]

\* an injection that appends every placeholder, present or not
InjectPlaceholders_Always(records) ==
    records \o [i \in 1..Len(needed) |-> Placeholder(needed[i])]

\* the placeholders appended for the needed names absent from the loaded rows
InjectPlaceholders(records) ==
    LET present == {records[i].analyte_name : i \in 1..Len(records)}
        Missing(n) == n.name \notin present
        missing == SelectSeq(needed, Missing)
    IN  records \o [i \in 1..Len(missing) |-> Placeholder(missing[i])]

\* load_analyte_reference(path) when the directory scan lists the files as scan
load_analyte_reference(path, scan, files) ==
    LET cascaded == ResolveCascade(path, scan, files)
        resolved == ResolveFallback(cascaded, files)
    IN  IF ~Exists(files, resolved)
        THEN [called |-> TRUE, arg |-> path, extras |-> SubSeq(CascadeCandidates(scan), 6, Len(CascadeCandidates(scan))),
              outcome |-> "FileNotFoundError", resolved |-> resolved,
              rows |-> <<>>, records |-> <<>>]
        ELSE [called |-> TRUE, arg |-> path, extras |-> SubSeq(CascadeCandidates(scan), 6, Len(CascadeCandidates(scan))),
              outcome |-> "returned", resolved |-> resolved,
              rows |-> files[resolved].rows,
              records |-> InjectPlaceholders(ParseRows(files[resolved].rows))]

NoCall == [called |-> FALSE]

\* a call of load_analyte_reference
Load(path) ==
    /\ \E scan \in RglobScans(fs) : loaded' = load_analyte_reference(path, scan, fs)
    /\ UNCHANGED fs

(***************************************************************************)
(* Loader study: reference files are packaged and removed, a caller file   *)
(* is written with any rows, and load_analyte_reference is called.         *)
(***************************************************************************)
MinimalRow(var, name, cas, source, first, last, count) ==
    [variable_name |-> var, analyte_name |-> name, cas_rn |-> cas,
     cas_verified_source |-> source, matrix |-> "urine", unit |-> "ug/L",
     cycle_first |-> first, cycle_last |-> last, cycle_count |-> count,
     data_file_description |-> "Pesticides - Urine"]

Classified(row, class, source) ==
    [chemical_class |-> class, chemical_subclass |-> "", classification_source |-> source] @@ row

Row3PBA == MinimalRow(s_URX3PBA, s_3PBA, s_cas3PBA, "pubchem_api", 1999, 2013, 6)

RowDMP == MinimalRow(s_URXDMP, s_DMP, s_casDMP, "", 1999, 2017, 8)

RowDDE == MinimalRow(s_LBXPDE, s_ppDDE, s_casDDE, "pubchem_api", 1999, 2015, 7)

\* the 3-PBA variable under a name spelled without the hyphen
Row3PBAflat == MinimalRow(s_URX3PBA, s_3PBAflat, <<>>, "", 2007, 2009, 2)

\* a row of the curated table, which has no variable_name and no cycle columns
RowCurated == [analyte_name |-> s_DMP, cas_rn |-> s_casDMP, cas_verified_source |-> "manual_no_cid"]

\* what each packaged file holds when it is installed
PackagedRows ==
    [p \in Paths \ {CUSTOM_CSV} |->
        CASE p = REFERENCE_CSV -> <<Row3PBA, RowDMP, RowDDE>>
          [] p = REFERENCE_CSV_CLASSIFIED ->
                <<Classified(Row3PBA, "Pyrethroid metabolite", "CDC Fourth Report"),
                  Classified(RowDMP, "", ""),
                  Classified(RowDDE, "Organochlorine", "CDC Fourth Report")>>
          [] p = REFERENCE_CSV_SHIM -> <<RowDMP, RowDDE>>
          [] p = FLAT_MINIMAL_CSV -> <<Row3PBA>>
          [] p = FLAT_CLASSIFIED_CSV -> <<>>
          [] p = CURATED_CSV -> <<RowCurated>>
          [] p = LEGACY_CSV -> <<Row3PBAflat, RowDDE>>]

CustomRowPool == {Row3PBA, RowDMP, RowDDE, Row3PBAflat}

CustomContents == UNION {[1..n -> CustomRowPool] : n \in 0..MaxFileRows}

\* the paths callers pass: the default, a cascade member, a file of their own
LoadArgs == {REFERENCE_CSV, REFERENCE_CSV_CLASSIFIED, CUSTOM_CSV}

\* a packaged reference file is installed
Package ==
    /\ \E p \in Paths \ {CUSTOM_CSV} :
          /\ ~Exists(fs, p)
          /\ fs' = [fs EXCEPT ![p] = File(PackagedRows[p])]
    /\ loaded' = NoCall
    /\ UNCHANGED <<normIn, normOnce, normTwice, matchIn, matchOut, expand, net, enrichVars, apiVars>>

\* the caller writes a reference file of their own
WriteCustom ==
    /\ \E rows \in CustomContents : fs' = [fs EXCEPT ![CUSTOM_CSV] = File(rows)]
    /\ fs' # fs
    /\ loaded' = NoCall
    /\ UNCHANGED <<normIn, normOnce, normTwice, matchIn, matchOut, expand, net, enrichVars, apiVars>>

\* a reference file is deleted or left out of the distribution
Remove ==
    /\ \E p \in Paths :
          /\ Exists(fs, p)
          /\ fs' = [fs EXCEPT ![p] = Absent]
    /\ loaded' = NoCall
    /\ UNCHANGED <<normIn, normOnce, normTwice, matchIn, matchOut, expand, net, enrichVars, apiVars>>

\* load_analyte_reference is called with one of the paths callers pass
LoadCall ==
    /\ \E arg \in LoadArgs : Load(arg)
    /\ UNCHANGED <<normIn, normOnce, normTwice, matchIn, matchOut, expand, net, enrichVars, apiVars>>

InitLoader ==
    /\ fs = [p \in AllPaths |-> Absent]
    /\ loaded = NoCall
    /\ NormIdle
    /\ MatchIdle
    /\ ExpandIdle
    /\ EnrichIdle
    /\ ApiIdle

NextLoader == Package \/ WriteCustom \/ Remove \/ LoadCall

SpecLoader == InitLoader /\ [][NextLoader]_vars

(***************************************************************************)
(* Claims about load_analyte_reference (checked under SpecLoader)          *)
(***************************************************************************)
\* the documented cascade, spelled out
DocumentedOrder ==
    <<"data/reference/classified/pesticide_reference_classified.csv",
      "data/reference/minimal/pesticide_reference_minimal.csv",
      "data/reference/pesticide_reference.csv",
      "data/reference/pesticide_reference_minimal.csv",
      "data/reference/pesticide_reference_classified.csv">>

GlobDiscovered == (Present(fs) \cap GlobMatches) \ Range(DocumentedOrder)

DefaultCall == loaded.called /\ loaded.arg = REFERENCE_CSV

\* C5: a default-path call reads the first existing file of the documented
\* order (classified, minimal, shim, flat minimal, flat classified), and a
\* glob-discovered file only when all five are absent; whatever is read,
\* every candidate before it is absent.
C5_CascadeOrder ==
    DefaultCall =>
        /\ \A i \in 1..5 :
              (Exists(fs, DocumentedOrder[i]) /\ \A j \in 1..(i - 1) : ~Exists(fs, DocumentedOrder[j]))
              => /\ loaded.outcome = "returned"
                 /\ loaded.resolved = DocumentedOrder[i]
                 /\ loaded.rows = fs[DocumentedOrder[i]].rows
        /\ ((\A i \in 1..5 : ~Exists(fs, DocumentedOrder[i])) /\ GlobDiscovered # {})
              => /\ loaded.outcome = "returned"
                 /\ loaded.resolved \in GlobDiscovered
                 /\ loaded.resolved = loaded.extras[1]
                 /\ loaded.rows = fs[loaded.resolved].rows

\* C5 witness: the shim is read while later candidates (flat minimal, a
\* glob-discovered file) exist and the classified and minimal files do not.
C5_Witness ==
    /\ DefaultCall
    /\ loaded.resolved = REFERENCE_CSV_SHIM
    /\ Exists(fs, FLAT_MINIMAL_CSV)
    /\ Exists(fs, CURATED_CSV)

\* C6: with the files unchanged, a call with the same argument as the call
\* before it resolves to the same file.
C6_CascadeDeterminism ==
    [][(loaded.called /\ loaded'.called /\ fs' = fs /\ loaded'.arg = loaded.arg)
          => loaded'.resolved = loaded.resolved]_vars

\* C7: FileNotFoundError is raised exactly when no usable file exists: for
\* the default path when all cascade candidates are absent, for another
\* path when it, the shim and the flat minimal file are all absent;
\* otherwise the call returns.
C7_FileNotFoundOnlyWhenNothingUsable ==
    loaded.called =>
        /\ loaded.outcome \in {"returned", "FileNotFoundError"}
        /\ loaded.outcome = "FileNotFoundError" <=>
              IF loaded.arg = "data/reference/minimal/pesticide_reference_minimal.csv"
              THEN /\ \A i \in 1..5 : ~Exists(fs, DocumentedOrder[i])
                   /\ GlobDiscovered = {}
              ELSE /\ ~Exists(fs, loaded.arg)
                   /\ ~Exists(fs, "data/reference/pesticide_reference.csv")
                   /\ ~Exists(fs, "data/reference/pesticide_reference_minimal.csv")
        /\ (loaded.arg # REFERENCE_CSV /\ ~Exists(fs, loaded.arg) /\ loaded.outcome = "returned")
              => loaded.resolved =
                    IF Exists(fs, "data/reference/pesticide_reference.csv")
                    THEN "data/reference/pesticide_reference.csv"
                    ELSE "data/reference/pesticide_reference_minimal.csv"

\* C7 witness: an absent caller file falls back to the shim and returns.
C7_Witness ==
    /\ loaded.called
    /\ loaded.arg = CUSTOM_CSV
    /\ ~Exists(fs, CUSTOM_CSV)
    /\ loaded.outcome = "returned"
    /\ loaded.resolved = REFERENCE_CSV_SHIM
    /\ Exists(fs, REFERENCE_CSV_CLASSIFIED)

\* C8: a path that exists is read as given.
C8_ExistingPathLoadedAsGiven ==
    (loaded.called /\ Exists(fs, loaded.arg)) => loaded.resolved = loaded.arg

LoadedNames == {loaded.rows[i].analyte_name : i \in 1..Len(loaded.rows)}

LoadedPairs ==
    {<<Get(loaded.rows[i], "variable_name", <<>>), loaded.rows[i].analyte_name>> : i \in 1..Len(loaded.rows)}

\* C9: a returned list holds a record named 3-PBA and one named DMP; the
\* records after the loaded rows are placeholders, each for a needed name
\* the rows lack, with an empty cas_verified_source and a
\* (variable_name, analyte_name) pair the rows do not contain.
C9_PlaceholderInjection ==
    (loaded.called /\ loaded.outcome = "returned") =>
        /\ \E i \in 1..Len(loaded.records) : loaded.records[i].analyte_name = <<"3","-","P","B","A">>
        /\ \E i \in 1..Len(loaded.records) : loaded.records[i].analyte_name = <<"D","M","P">>
        /\ Len(loaded.records) >= Len(loaded.rows)
        /\ \A i \in 1..Len(loaded.rows) : loaded.records[i].analyte_name = loaded.rows[i].analyte_name
        /\ \A i \in (Len(loaded.rows) + 1)..Len(loaded.records) :
              /\ loaded.records[i].analyte_name \in {<<"3","-","P","B","A">>, <<"D","M","P">>}
              /\ loaded.records[i].analyte_name \notin LoadedNames
              /\ loaded.records[i].cas_verified_source = ""
              /\ <<loaded.records[i].variable_name, loaded.records[i].analyte_name>> \notin LoadedPairs
        /\ \A i, j \in (Len(loaded.rows) + 1)..Len(loaded.records) :
              loaded.records[i].analyte_name = loaded.records[j].analyte_name => i = j

\* C9 witness: the rows hold DMP and the 3-PBA variable under another name,
\* and exactly the 3-PBA placeholder is appended.
C9_Witness ==
    /\ loaded.called
    /\ loaded.outcome = "returned"
    /\ s_DMP \in LoadedNames
    /\ <<s_URX3PBA, s_3PBAflat>> \in LoadedPairs
    /\ Len(loaded.records) = Len(loaded.rows) + 1
    /\ loaded.records[Len(loaded.records)].analyte_name = s_3PBA

(***************************************************************************)
(* Normalizer study: specification and claim                               *)
(***************************************************************************)
FilesIdle == fs = [p \in AllPaths |-> Absent] /\ loaded = NoCall

InitNormalize ==
    /\ normIn \in NormStrings
    /\ normOnce = NoResult
    /\ normTwice = NoResult
    /\ FilesIdle
    /\ MatchIdle
    /\ ExpandIdle
    /\ EnrichIdle
    /\ ApiIdle

NextNormalize ==
    \/ NormalizeOnce /\ UNCHANGED <<fs, loaded, matchIn, matchOut, expand, net, enrichVars, apiVars>>
    \/ NormalizeTwice /\ UNCHANGED <<fs, loaded, matchIn, matchOut, expand, net, enrichVars, apiVars>>

SpecNormalize == InitNormalize /\ [][NextNormalize]_vars

IsText(x) == DOMAIN x = 1..Len(x)

\* C10: each normalizer returns a string for every input (of lower-case
\* alphanumerics for the strict ones; of word characters, single blanks,
\* commas and hyphens for _normalize_name), and normalizing its result
\* again returns the same string.
C10_NormalizationIdempotentTotal ==
    /\ normOnce.set =>
          /\ IsText(normOnce.strict) /\ IsText(normOnce.matching) /\ IsText(normOnce.name)
          /\ \A i \in 1..Len(normOnce.strict) : normOnce.strict[i] \in {"a", "b"}
          /\ normOnce.matching = normOnce.strict
          /\ \A i \in 1..Len(normOnce.name) : normOnce.name[i] \in {"a", "b", "-", "_", " "}
    /\ normTwice.set =>
          /\ normTwice.strict = normOnce.strict
          /\ normTwice.matching = normOnce.matching
          /\ normTwice.name = normOnce.name

\* C10 witness: an input with removed punctuation between blanks, which both
\* normalizers change and change differently, has been normalized twice.
C10_Witness ==
    /\ normTwice.set
    /\ Contains(normIn, <<" ", ".", " ">>)
    /\ Contains(normOnce.name, <<"a", " ", "b">>)
    /\ normOnce.strict = <<"a", "b">>

(***************************************************************************)
(* Classification matcher                                                  *)
(***************************************************************************)
\* scores are exact fractions num/den; 1.0 is 1/1 and 0.0 is 0/1
Frac(n, d) == [num |-> n, den |-> d]

FracGeq(a, b) == a.num * b.den >= b.num * a.den

FracEq(a, b) == a.num * b.den = b.num * a.den

FracGt(a, b) == a.num * b.den > b.num * a.den

Min(a, b) == IF a <= b THEN a ELSE b

Max(a, b) == IF a >= b THEN a ELSE b

\* str.split(): the maximal runs of non-whitespace characters
RECURSIVE SplitWords(_)
SplitWords(s) ==
    LET t == LStrip(s)
    IN  IF t = <<>> THEN <<>>
        ELSE LET n == IF \E i \in 1..Len(t) : IsSpaceChar(t[i])
                      THEN (CHOOSE i \in 1..Len(t) :
                               IsSpaceChar(t[i]) /\ \A j \in 1..(i - 1) : ~IsSpaceChar(t[j])) - 1
                      ELSE Len(t)
             IN  <<SubSeq(t, 1, n)>> \o SplitWords(SubSeq(t, n + 1, Len(t)))

\* _compute_similarity_score(query, candidate)
_compute_similarity_score(query, candidate) ==
    LET query_norm == _normalize_name(query)
        cand_norm == _normalize_name(candidate)
        query_tokens == Range(SplitWords(query_norm))
        cand_tokens == Range(SplitWords(cand_norm))
    IN  IF query_norm = <<>> \/ cand_norm = <<>> THEN Frac(0, 1)
        ELSE IF query_norm = cand_norm THEN Frac(1, 1)
        ELSE IF Contains(cand_norm, query_norm) \/ Contains(query_norm, cand_norm)
             THEN Frac(Min(Len(query_norm), Len(cand_norm)), Max(Len(query_norm), Len(cand_norm)))
        ELSE IF query_tokens = {} \/ cand_tokens = {} THEN Frac(0, 1)
        ELSE Frac(Cardinality(query_tokens \cap cand_tokens), Cardinality(query_tokens \cup cand_tokens))

Candidate(entry, score, method) ==
    [cdc_name |-> entry.cdc_name, chemical_class |-> entry.chemical_class,
     chemical_subclass |-> entry.chemical_subclass, score |-> score, match_method |-> method]

\* Strategy 1: candidates whose CDC name shares PubChem synonyms with the analyte
SynonymBridgeTier(analyte_name, cdc_list, synonym_map) ==
    LET analyte_norm == _normalize_name(analyte_name)
        Bridged(entry) ==
            /\ _normalize_name(entry.cdc_name) \in DOMAIN synonym_map
            /\ synonym_map[_normalize_name(entry.cdc_name)] \cap synonym_map[analyte_norm] # {}
        hits == SelectSeq(cdc_list, Bridged)
    IN  IF analyte_norm \in DOMAIN synonym_map
        THEN [i \in 1..Len(hits) |-> Candidate(hits[i], Frac(1, 1), "pubchem_synonym")]
        ELSE <<>>

\* Strategy 2: the CDC name equals the analyte name after normalization, or
\* the synonym map lists the analyte under the CDC name
ExactNameTier(analyte_name, cdc_list, synonym_map) ==
    LET analyte_norm == _normalize_name(analyte_name)
        IsExact(entry) == _normalize_name(entry.cdc_name) = analyte_norm
        IsListed(entry) ==
            /\ _normalize_name(entry.cdc_name) \in DOMAIN synonym_map
            /\ analyte_name \in synonym_map[_normalize_name(entry.cdc_name)]
        Hit(entry) == IsExact(entry) \/ IsListed(entry)
        hits == SelectSeq(cdc_list, Hit)
    IN  [i \in 1..Len(hits) |->
            Candidate(hits[i], Frac(1, 1), IF IsExact(hits[i]) THEN "exact_match" ELSE "pubchem_synonym")]

\* a fuzzy tier that is evaluated whatever the earlier tiers found
FuzzyTier_Always(analyte_name, cdc_list, threshold, candidates) ==
    LET Scored(entry) == FracGeq(_compute_similarity_score(analyte_name, entry.cdc_name), threshold)
        hits == SelectSeq(cdc_list, Scored)
    IN  [calls |-> Len(cdc_list),
         found |-> [i \in 1..Len(hits) |->
                      Candidate(hits[i], _compute_similarity_score(analyte_name, hits[i].cdc_name), "fuzzy")]]

\* Strategy 3: the fuzzy fallback, with the number of score computations
FuzzyTier(analyte_name, cdc_list, threshold, candidates) ==
    LET Scored(entry) == FracGeq(_compute_similarity_score(analyte_name, entry.cdc_name), threshold)
        hits == SelectSeq(cdc_list, Scored)
    IN  IF candidates = <<>>
        THEN [calls |-> Len(cdc_list),
              found |-> [i \in 1..Len(hits) |->
                           Candidate(hits[i], _compute_similarity_score(analyte_name, hits[i].cdc_name), "fuzzy")]]
        ELSE [calls |-> 0, found |-> <<>>]

\* method_priority.get(method, 99)
method_priority(method) ==
    CASE method = "pubchem_synonym" -> 0
      [] method = "exact_match" -> 1
      [] method = "fuzzy" -> 2
      [] OTHER -> 99

\* the sort key (-score, priority) of a precedes that of b
KeyBefore(a, b) ==
    \/ FracGt(a.score, b.score)
    \/ FracEq(a.score, b.score) /\ method_priority(a.match_method) < method_priority(b.match_method)

\* a sort on the score alone
RECURSIVE SortCandidates_ByScore(_)
SortCandidates_ByScore(cands) ==
    IF cands = <<>> THEN <<>>
    ELSE LET sorted == SortCandidates_ByScore(SubSeq(cands, 1, Len(cands) - 1))
             x == cands[Len(cands)]
             k == Cardinality({i \in 1..Len(sorted) : ~FracGt(x.score, sorted[i].score)})
         IN  SubSeq(sorted, 1, k) \o <<x>> \o SubSeq(sorted, k + 1, Len(sorted))

\* list.sort(key=...): a stable sort
RECURSIVE SortCandidates(_)
SortCandidates(cands) ==
    IF cands = <<>> THEN <<>>
    ELSE LET sorted == SortCandidates(SubSeq(cands, 1, Len(cands) - 1))
             x == cands[Len(cands)]
             k == Cardinality({i \in 1..Len(sorted) : ~KeyBefore(x, sorted[i])})
         IN  SubSeq(sorted, 1, k) \o <<x>> \o SubSeq(sorted, k + 1, Len(sorted))

\* find_classification_candidates, with the count of similarity-score calls
find_classification_candidates(analyte_name, cdc_list, synonym_map, threshold) ==
    LET tiers12 == SynonymBridgeTier(analyte_name, cdc_list, synonym_map)
                      \o ExactNameTier(analyte_name, cdc_list, synonym_map)
        fuzzy == FuzzyTier(analyte_name, cdc_list, threshold, tiers12)
    IN  [set |-> TRUE,
         candidates |-> SortCandidates(tiers12 \o fuzzy.found),
         fuzzyCalls |-> fuzzy.calls]

(***************************************************************************)
(* Matcher study: find_classification_candidates is applied to analyte     *)
(* names, CDC lists, synonym maps and thresholds drawn from small pools.   *)
(***************************************************************************)
a_Mirex == <<"M","i","r","e","x">>

a_Dechlorane == <<"D","e","c","h","l","o","r","a","n","e">>

a_Dimethylphosphate == <<"D","i","m","e","t","h","y","l","p","h","o","s","p","h","a","t","e">>

a_DCCA_acid == <<"D","C","C","A"," ","a","c","i","d">>

a_cis_DCCA_acid == <<"c","i","s"," ","D","C","C","A"," ","a","c","i","d">>

c_mirex == <<"m","i","r","e","x">>

c_dde == <<"d","d","e">>

c_dimethylphosphate == <<"d","i","m","e","t","h","y","l","p","h","o","s","p","h","a","t","e">>

c_3_phenoxybenzoic_acid == <<"3","-","p","h","e","n","o","x","y","b","e","n","z","o","i","c"," ","a","c","i","d">>

k_dechlorane == <<"d","e","c","h","l","o","r","a","n","e">>

k_pp_dde == <<"p",",","p","'","-","d","d","e">>

CdcEntry(name, class) == [cdc_name |-> name, chemical_class |-> class, chemical_subclass |-> ""]

\* entries of CDC_CLASSIFICATIONS
CdcPool ==
    {CdcEntry(c_mirex, "Organochlorine"),
     CdcEntry(c_dde, "Organochlorine"),
     CdcEntry(c_dimethylphosphate, "Organophosphate metabolite"),
     CdcEntry(c_3_phenoxybenzoic_acid, "Pyrethroid metabolite")}

CdcLists == UNION {[1..n -> CdcPool] : n \in 0..MaxCdcLen}

\* the words of "3-phenoxybenzoic acid" in the other order
a_Acid_3_phenoxybenzoic == <<"A","c","i","d"," ","3","-","p","h","e","n","o","x","y","b","e","n","z","o","i","c">>

AnalytePool ==
    {a_Mirex, a_Dechlorane, s_ppDDE, a_Dimethylphosphate, s_DMP, a_DCCA_acid, a_cis_DCCA_acid,
     a_Acid_3_phenoxybenzoic}

\* synonym indexes as load_pubchem_synonym_map returns them
SynonymsMirex == (c_mirex :> {a_Mirex}) @@ (k_dechlorane :> {a_Mirex})

SynonymsDDE == (c_dde :> {s_ppDDE}) @@ (k_pp_dde :> {s_ppDDE})

\* an index in which "mirex" is a synonym of Dechlorane only, and "dde" one of Mirex
SynonymsCrossed == (c_mirex :> {a_Dechlorane}) @@ (c_dde :> {a_Mirex})

SynonymMaps == {<<>>, SynonymsMirex, SynonymsDDE, SynonymsMirex @@ SynonymsDDE, SynonymsCrossed}

\* the default threshold and the one log_evidence passes
Thresholds == {Frac(3, 10), Frac(25, 100)}

MatchInputs ==
    [set : {TRUE}, analyte_name : AnalytePool, cdc_list : CdcLists,
     synonym_map : SynonymMaps, threshold : Thresholds]

FindCandidates ==
    /\ ~matchOut.set
    /\ matchOut' = find_classification_candidates(matchIn.analyte_name, matchIn.cdc_list,
                                                  matchIn.synonym_map, matchIn.threshold)
    /\ UNCHANGED <<matchIn, fs, loaded, normIn, normOnce, normTwice, expand, net, enrichVars, apiVars>>

InitMatcher ==
    /\ matchIn \in MatchInputs
    /\ matchOut = NoResult
    /\ FilesIdle
    /\ NormIdle
    /\ ExpandIdle
    /\ EnrichIdle
    /\ ApiIdle

NextMatcher == FindCandidates

SpecMatcher == InitMatcher /\ [][NextMatcher]_vars

(***************************************************************************)
(* Claims about find_classification_candidates (checked under SpecMatcher) *)
(***************************************************************************)
\* a synonym-bridge match exists: the normalized analyte name and some
\* normalized CDC name are both keys of the index with intersecting sets
HasSynonymBridge ==
    /\ _normalize_name(matchIn.analyte_name) \in DOMAIN matchIn.synonym_map
    /\ \E i \in 1..Len(matchIn.cdc_list) :
          /\ _normalize_name(matchIn.cdc_list[i].cdc_name) \in DOMAIN matchIn.synonym_map
          /\ matchIn.synonym_map[_normalize_name(matchIn.cdc_list[i].cdc_name)]
                \cap matchIn.synonym_map[_normalize_name(matchIn.analyte_name)] # {}

\* an exact-name match exists
HasExactName ==
    \E i \in 1..Len(matchIn.cdc_list) :
        _normalize_name(matchIn.cdc_list[i].cdc_name) = _normalize_name(matchIn.analyte_name)

Methods(cands) == {cands[i].match_method : i \in 1..Len(cands)}

\* C3: when the analyte has a synonym-bridge or an exact-name match, the
\* similarity score is never computed and no fuzzy candidate is returned;
\* the score is computed only when neither tier has a match.
C3_TierStrictness ==
    matchOut.set =>
        /\ (HasSynonymBridge \/ HasExactName)
              => /\ matchOut.fuzzyCalls = 0
                 /\ "fuzzy" \notin Methods(matchOut.candidates)
        /\ "fuzzy" \in Methods(matchOut.candidates) => matchOut.fuzzyCalls > 0

\* C3 witness: an analyte with an exact-name match in a CDC list of two
\* entries; the score was never computed and the one match is returned.
C3_Witness ==
    /\ matchOut.set
    /\ HasExactName
    /\ ~HasSynonymBridge
    /\ matchOut.fuzzyCalls = 0
    /\ Len(matchOut.candidates) = 1
    /\ Len(matchIn.cdc_list) = 2

\* C4: every candidate of a returned list carries the same match_method,
\* and a synonym-bridge match leaves no exact_match candidate in the list.
C4_StrictTierOverride ==
    matchOut.set =>
        /\ Cardinality(Methods(matchOut.candidates)) <= 1
        /\ HasSynonymBridge => "exact_match" \notin Methods(matchOut.candidates)

(***************************************************************************)
(* Text primitives of the pipeline scripts                                 *)
(***************************************************************************)
p_ugL == <<"(","u","g","/","L",")">>

p_ngg == <<"(","n","g","/","g",")">>

p_pgg == <<"(","p","g","/","g",")">>

p_mgdL == <<"(","m","g","/","d","L",")">>

p_result == <<" ","r","e","s","u","l","t">>

p_sp_Lipid_Adj == <<" ","L","i","p","i","d"," ","A","d","j">>

p_sp_Lipid_Adjusted == <<" ","L","i","p","i","d"," ","A","d","j","u","s","t","e","d">>

p_Lipid_Adj == <<"L","i","p","i","d"," ","A","d","j">>

p_Lipid_Adjusted == <<"L","i","p","i","d"," ","A","d","j","u","s","t","e","d">>

p_sp_paren == <<" ","(">>

l_ugl_paren == <<"(","u","g","/","l",")">>

l_mgdl_paren == <<"(","m","g","/","d","l",")">>

l_pstpol == <<"p","s","t","p","o","l">>

l_sspst == <<"s","s","p","s","t">>

l_poc == <<"p","o","c">>

l_lipid == <<"l","i","p","i","d">>

l_ngg == <<"n","g","/","g">>

l_pgg == <<"p","g","/","g">>

l_ugl == <<"u","g","/","l">>

d_DMP_ugL == <<"D","M","P"," ","(","u","g","/","L",")">>

d_Dimethylphosphate_ugL == <<"D","i","m","e","t","h","y","l","p","h","o","s","p","h","a","t","e"," ","(","u","g","/","L",")">>

d_3PBA_ugL == <<"3","-","P","B","A"," ","(","u","g","/","L",")">>

d_ppDDE_lipid == <<"p",",","p","'","-","D","D","E"," ","L","i","p","i","d"," ","A","d","j"," ","(","n","g","/","g",")">>

f_OPD_E == <<"O","P","D","_","E">>

f_UPHOPM_F == <<"U","P","H","O","P","M","_","F">>

f_PSTPOL_D == <<"P","S","T","P","O","L","_","D">>

s_casDDE_padded == <<" ","7","2","-","5","5","-","9">>

s_nan == <<"n","a","n">>

\* str.find(sep): the offset of the first occurrence of sep in s
FirstOffset(s, sep) ==
    CHOOSE i \in 0..(Len(s) - Len(sep)) :
        /\ SubSeq(s, i + 1, i + Len(sep)) = sep
        /\ \A j \in 0..(i - 1) : SubSeq(s, j + 1, j + Len(sep)) # sep

\* str.replace(pat, ""): every non-overlapping occurrence, left to right
RECURSIVE StrRemove(_, _)
StrRemove(s, pat) ==
    IF pat = <<>> \/ ~Contains(s, pat) THEN s
    ELSE SubSeq(s, 1, FirstOffset(s, pat))
            \o StrRemove(SubSeq(s, FirstOffset(s, pat) + Len(pat) + 1, Len(s)), pat)

\* s.split(sep)[0]: the text before the first occurrence of sep
BeforeFirst(s, sep) ==
    IF Contains(s, sep) THEN SubSeq(s, 1, FirstOffset(s, sep)) ELSE s

\* the characters of the model in code-point order
CodePoints ==
    <<"\t", "\n", "\r", " ", "&", "'", "(", ")", ",", "-", ".", "/",
      "0","1","2","3","4","5","6","7","8","9",
      "A","B","C","D","E","F","G","H","I","J","K","L","M",
      "N","O","P","Q","R","S","T","U","V","W","X","Y","Z", "_",
      "a","b","c","d","e","f","g","h","i","j","k","l","m",
      "n","o","p","q","r","s","t","u","v","w","x","y","z">>

OrdOf == [c \in Range(CodePoints) |-> CHOOSE i \in 1..Len(CodePoints) : CodePoints[i] = c]

\* ord(c)
Ord(c) == OrdOf[c]

\* Python: a < b on strings
RECURSIVE StrLess(_, _)
StrLess(a, b) ==
    IF b = <<>> THEN FALSE
    ELSE IF a = <<>> THEN TRUE
    ELSE IF Head(a) = Head(b) THEN StrLess(Tail(a), Tail(b))
    ELSE Ord(Head(a)) < Ord(Head(b))

\* the elements of a finite set of strings in ascending order
RECURSIVE SortedStrings(_)
SortedStrings(S) ==
    IF S = {} THEN <<>>
    ELSE LET least == CHOOSE x \in S : \A y \in S \ {x} : StrLess(x, y)
         IN  <<least>> \o SortedStrings(S \ {least})

(***************************************************************************)
(* pandas CSV conversions                                                  *)
(***************************************************************************)
\* the missing value of a pandas text column
NaN == <<"NaN">>

\* pandas.isna / pandas.notna
IsNaN(x) == x = NaN

\* the spellings pandas.read_csv reads as missing
NaSpellings ==
    {<<>>, <<"N","A">>, <<"N","/","A">>, <<"n","/","a">>, <<"N","a","N">>, <<"n","a","n">>,
     <<"N","U","L","L">>, <<"n","u","l","l">>, <<"N","o","n","e">>, <<"<","N","A",">">>, <<"#","N","A">>,
     <<"#","N","/","A">>, <<"-","N","a","N">>, <<"-","n","a","n">>}

\* pandas.read_csv on one text cell
ReadCsvText(cell) == IF cell \in NaSpellings THEN NaN ELSE cell

\* DataFrame.to_csv on one text cell
WriteCsvText(value) == IF IsNaN(value) THEN <<>> ELSE value

\* pandas.read_csv / to_csv on a cell of an opaque text column
ReadCsvLabel(cell) == IF cell \in {"", "NA", "N/A", "n/a", "NaN", "nan", "NULL", "null", "None"} THEN "NaN" ELSE cell

WriteCsvLabel(value) == IF value = "NaN" THEN "" ELSE value

\* str(value) of a text cell
StrOf(value) == IF IsNaN(value) THEN s_nan ELSE value

(***************************************************************************)
(* build_minimal_pesticide_reference                                       *)
(***************************************************************************)
infer_matrix(data_file_name, variable_description) ==
    LET df_lower == Lower(data_file_name)
        desc_lower == Lower(variable_description)
    IN  IF Contains(df_lower, l_pstpol) \/ Contains(df_lower, l_sspst) \/ Contains(df_lower, l_poc)
        THEN "serum"
        ELSE IF Contains(desc_lower, l_lipid) \/ Contains(desc_lower, l_ngg) \/ Contains(desc_lower, l_pgg)
        THEN "serum"
        ELSE IF Contains(StrRemove(desc_lower, <<" ">>), l_ugl)
        THEN "urine"
        ELSE "unknown"

extract_unit(variable_description) ==
    LET desc == Lower(variable_description)
    IN  IF Contains(desc, l_ugl_paren) THEN "ug/L"
        ELSE IF Contains(desc, Lower(p_ngg)) THEN "ng/g"
        ELSE IF Contains(desc, Lower(p_pgg)) THEN "pg/g"
        ELSE IF Contains(desc, l_mgdl_paren) THEN "mg/dL"
        ELSE ""

\* the unit and adjustment patterns, in the order the loop removes them
UnitPatterns ==
    <<p_ugL, p_ngg, p_pgg, p_mgdL, p_result, p_sp_Lipid_Adj, p_sp_Lipid_Adjusted,
      p_Lipid_Adj, p_Lipid_Adjusted>>

RECURSIVE RemoveAll(_, _)
RemoveAll(s, patterns) ==
    IF patterns = <<>> THEN s
    ELSE RemoveAll(StrRemove(s, Head(patterns)), Tail(patterns))

normalize_analyte_name(variable_description) ==
    LET desc == Strip(RemoveAll(Strip(variable_description), UnitPatterns))
    IN  IF Contains(desc, p_sp_paren) THEN Strip(BeforeFirst(desc, p_sp_paren)) ELSE desc

\* an insertion-ordered dict as a sequence of key/value pairs: d[k] = v
DictPut(d, k, v) ==
    IF \E i \in 1..Len(d) : d[i].key = k
    THEN [i \in 1..Len(d) |-> IF d[i].key = k THEN [key |-> k, value |-> v] ELSE d[i]]
    ELSE Append(d, [key |-> k, value |-> v])

DictHas(d, k) == \E i \in 1..Len(d) : d[i].key = k

DictGet(d, k) == d[CHOOSE i \in 1..Len(d) : d[i].key = k].value

\* the first loop of main: cas_map[analyte_name] = cas_rn
RECURSIVE CasMapByName(_)
CasMapByName(curated) ==
    IF curated = <<>> THEN <<>>
    ELSE DictPut(CasMapByName(SubSeq(curated, 1, Len(curated) - 1)),
                 curated[Len(curated)].analyte_name, curated[Len(curated)].cas_rn)

\* the second loop of main: cas_map[normalized analyte_name] = cas_rn
RECURSIVE CasMapWithNormalized(_, _)
CasMapWithNormalized(map, curated) ==
    IF curated = <<>> THEN map
    ELSE DictPut(CasMapWithNormalized(map, SubSeq(curated, 1, Len(curated) - 1)),
                 _normalize_for_matching(curated[Len(curated)].analyte_name),
                 curated[Len(curated)].cas_rn)

\* what find_cas returns when no strategy hits
None == <<"None">>

\* find_cas with the normalized analyte name tried before the variable_name
find_cas_NameFirst(variable_name, analyte_name_normalized, cas_map) ==
    LET norm == _normalize_for_matching(analyte_name_normalized)
        Partial(i) ==
            \/ Contains(norm, _normalize_for_matching(cas_map[i].key))
            \/ Contains(_normalize_for_matching(cas_map[i].key), norm)
    IN  IF DictHas(cas_map, norm) THEN DictGet(cas_map, norm)
        ELSE IF DictHas(cas_map, variable_name) THEN DictGet(cas_map, variable_name)
        ELSE IF \E i \in 1..Len(cas_map) : Partial(i)
             THEN cas_map[CHOOSE i \in 1..Len(cas_map) :
                             Partial(i) /\ \A j \in 1..(i - 1) : ~Partial(j)].value
             ELSE None

\* find_cas(row) over cas_map
find_cas(variable_name, analyte_name_normalized, cas_map) ==
    LET norm == _normalize_for_matching(analyte_name_normalized)
        Partial(i) ==
            \/ Contains(norm, _normalize_for_matching(cas_map[i].key))
            \/ Contains(_normalize_for_matching(cas_map[i].key), norm)
    IN  IF DictHas(cas_map, variable_name) THEN DictGet(cas_map, variable_name)
        ELSE IF DictHas(cas_map, norm) THEN DictGet(cas_map, norm)
        ELSE IF \E i \in 1..Len(cas_map) : Partial(i)
             THEN cas_map[CHOOSE i \in 1..Len(cas_map) :
                             Partial(i) /\ \A j \in 1..(i - 1) : ~Partial(j)].value
             ELSE None

\* pandas.read_csv of the curated table
ReadCurated(rows) ==
    [i \in 1..Len(rows) |->
        [analyte_name |-> ReadCsvText(rows[i].analyte_name),
         cas_rn |-> ReadCsvText(rows[i].cas_rn)]]

MinOf(S) == CHOOSE x \in S : \A y \in S : x <= y

MaxOf(S) == CHOOSE x \in S : \A y \in S : x >= y

\* one row of cycle_summary with its cas_rn and cas_verified_source: the
\* group of the rows of variable v, aggregated
SummaryRow(v, df_disc, df_curated, cas_map) ==
    LET Of(r) == r.variable_name = v
        group == SelectSeq(df_disc, Of)
        cycles == {group[i].cycle : i \in 1..Len(group)}
        name == normalize_analyte_name(group[1].variable_description)
        cas == IF df_curated # <<>> THEN find_cas(v, name, cas_map) ELSE <<>>
        verified == df_curated # <<>> /\ ~IsNaN(cas) /\ cas # None /\ cas # <<>>
    IN  [variable_name |-> v,
         analyte_name |-> name,
         cas_rn |-> IF cas = None THEN <<>> ELSE WriteCsvText(cas),
         cas_verified_source |-> IF verified THEN "pubchem_api" ELSE "",
         matrix |-> infer_matrix(group[1].data_file_name, group[1].variable_description),
         unit |-> extract_unit(group[1].variable_description),
         cycle_first |-> MinOf(cycles),
         cycle_last |-> MaxOf(cycles),
         cycle_count |-> Cardinality(cycles),
         data_file_description |-> group[1].data_file_description]

\* main of the builder: the rows written to the minimal reference for the
\* discovery table df_disc and the curated table (<<>> when the file is
\* missing or has no rows), sorted by variable_name
build_minimal_reference(df_disc, curated_rows) ==
    LET df_curated == ReadCurated(curated_rows)
        cas_map == CasMapWithNormalized(CasMapByName(df_curated), df_curated)
        variables == SortedStrings({df_disc[i].variable_name : i \in 1..Len(df_disc)})
    IN  [k \in 1..Len(variables) |-> SummaryRow(variables[k], df_disc, df_curated, cas_map)]

(***************************************************************************)
(* add_cdc_classifications                                                 *)
(***************************************************************************)
\* pandas.read_csv of the minimal reference
load_minimal_reference(rows) ==
    [i \in 1..Len(rows) |->
        [variable_name |-> ReadCsvText(rows[i].variable_name),
         analyte_name |-> ReadCsvText(rows[i].analyte_name),
         cas_rn |-> ReadCsvText(rows[i].cas_rn),
         cas_verified_source |-> ReadCsvLabel(rows[i].cas_verified_source),
         matrix |-> ReadCsvLabel(rows[i].matrix),
         unit |-> ReadCsvLabel(rows[i].unit),
         cycle_first |-> rows[i].cycle_first,
         cycle_last |-> rows[i].cycle_last,
         cycle_count |-> rows[i].cycle_count,
         data_file_description |-> ReadCsvLabel(rows[i].data_file_description)]]

\* pandas.read_csv of the CDC classification table
load_cdc_classifications(rows) ==
    [i \in 1..Len(rows) |->
        [cas_rn |-> ReadCsvText(rows[i].cas_rn),
         chemical_class |-> ReadCsvLabel(rows[i].chemical_class),
         chemical_subclass |-> ReadCsvLabel(rows[i].chemical_subclass),
         data_source |-> ReadCsvLabel(rows[i].data_source)]]

\* match_by_cas: the classification columns added to each row
match_by_cas(minimal_df, cdc_df) ==
    LET Key(i) == Strip(StrOf(cdc_df[i].cas_rn))
        InLookup(cas) == \E i \in 1..Len(cdc_df) : Key(i) = cas
        \* a later row with the same key replaces an earlier one
        Lookup(cas) == cdc_df[CHOOSE i \in 1..Len(cdc_df) :
                                 Key(i) = cas /\ \A j \in (i + 1)..Len(cdc_df) : Key(j) # cas]
        Matched(row) == ~IsNaN(row.cas_rn) /\ InLookup(Strip(StrOf(row.cas_rn)))
    IN  [i \in 1..Len(minimal_df) |->
            IF Matched(minimal_df[i])
            THEN [chemical_class |-> Lookup(Strip(StrOf(minimal_df[i].cas_rn))).chemical_class,
                  chemical_subclass |-> Lookup(Strip(StrOf(minimal_df[i].cas_rn))).chemical_subclass,
                  classification_source |-> Lookup(Strip(StrOf(minimal_df[i].cas_rn))).data_source]
                 @@ minimal_df[i]
            ELSE [chemical_class |-> "", chemical_subclass |-> "", classification_source |-> ""]
                 @@ minimal_df[i]]

\* DataFrame.to_csv of the enriched reference
WriteClassified(df) ==
    [i \in 1..Len(df) |->
        [variable_name |-> WriteCsvText(df[i].variable_name),
         analyte_name |-> WriteCsvText(df[i].analyte_name),
         cas_rn |-> WriteCsvText(df[i].cas_rn),
         cas_verified_source |-> WriteCsvLabel(df[i].cas_verified_source),
         matrix |-> WriteCsvLabel(df[i].matrix),
         unit |-> WriteCsvLabel(df[i].unit),
         cycle_first |-> df[i].cycle_first,
         cycle_last |-> df[i].cycle_last,
         cycle_count |-> df[i].cycle_count,
         data_file_description |-> WriteCsvLabel(df[i].data_file_description),
         chemical_class |-> WriteCsvLabel(df[i].chemical_class),
         chemical_subclass |-> WriteCsvLabel(df[i].chemical_subclass),
         classification_source |-> WriteCsvLabel(df[i].classification_source)]]

(***************************************************************************)
(* verify_minimal_reference_cas                                            *)
(***************************************************************************)
x_usted == <<"u","s","t","e","d">>

\* what a name query can come to: a CAS number of a single compound, a CAS
\* number of the first of several compounds, nothing
VerifyAnswers ==
    {[cas_rn |-> s_casDMP, status |-> "pubchem_api"],
     [cas_rn |-> s_casDMP, status |-> "ambiguous"],
     [cas_rn |-> <<>>, status |-> "not_found"]}

\* query_pubchem_by_name, given the answer of PubChem: names that hold
\* "usted" or are shorter than 3 characters are not queried
query_pubchem_by_name(analyte_name, answer) ==
    IF Contains(Lower(Strip(analyte_name)), x_usted) \/ Len(Strip(analyte_name)) < 3
    THEN [cas_rn |-> <<>>, status |-> "not_found"]
    ELSE answer

\* the rows whose cas_rn is missing or empty
Unverified(df) == {i \in 1..Len(df) : IsNaN(df[i].cas_rn) \/ df[i].cas_rn = <<>>}

\* the loop of main with rows updated on an ambiguous answer as well
ApplyVerification_Ambiguous(df, answers) ==
    [i \in 1..Len(df) |->
        IF i \in Unverified(df)
        THEN LET r == query_pubchem_by_name(df[i].analyte_name, answers[i])
             IN  IF r.status \in {"pubchem_api", "ambiguous"} /\ r.cas_rn # <<>>
                 THEN [df[i] EXCEPT !.cas_rn = r.cas_rn, !.cas_verified_source = "pubchem_api"]
                 ELSE df[i]
        ELSE df[i]]

\* the loop of main: a row is updated when its query status is "pubchem_api"
ApplyVerification(df, answers) ==
    [i \in 1..Len(df) |->
        IF i \in Unverified(df)
        THEN LET r == query_pubchem_by_name(df[i].analyte_name, answers[i])
             IN  IF r.status = "pubchem_api" /\ r.cas_rn # <<>>
                 THEN [df[i] EXCEPT !.cas_rn = r.cas_rn, !.cas_verified_source = "pubchem_api"]
                 ELSE df[i]
        ELSE df[i]]

\* DataFrame.to_csv of the minimal reference
WriteMinimal(df) ==
    [i \in 1..Len(df) |->
        [variable_name |-> WriteCsvText(df[i].variable_name),
         analyte_name |-> WriteCsvText(df[i].analyte_name),
         cas_rn |-> WriteCsvText(df[i].cas_rn),
         cas_verified_source |-> WriteCsvLabel(df[i].cas_verified_source),
         matrix |-> WriteCsvLabel(df[i].matrix),
         unit |-> WriteCsvLabel(df[i].unit),
         cycle_first |-> df[i].cycle_first,
         cycle_last |-> df[i].cycle_last,
         cycle_count |-> df[i].cycle_count,
         data_file_description |-> WriteCsvLabel(df[i].data_file_description)]]

(***************************************************************************)
(* Pipeline: the curated table is provided, the builder writes the minimal *)
(* reference, the classification step writes the classified reference,    *)
(* and the loader is called with its default path.  The scripts and the    *)
(* loader are run against one data/reference tree.                         *)
(***************************************************************************)
DiscRow(var, desc, file, cycle) ==
    [variable_name |-> var, variable_description |-> desc, data_file_name |-> file,
     data_file_description |-> "Pesticides", cycle |-> cycle]

\* rows of nhanes_pesticide_variables_discovered.csv
DiscRowPool ==
    {DiscRow(s_URXDMP, d_DMP_ugL, f_OPD_E, 2007),
     DiscRow(s_URXDMP, d_Dimethylphosphate_ugL, f_OPD_E, 2009),
     DiscRow(s_URX3PBA, d_3PBA_ugL, f_UPHOPM_F, 2009),
     DiscRow(s_LBXPDE, d_ppDDE_lipid, f_PSTPOL_D, 2005)}

\* discovery tables: up to MaxDiscRows distinct observations, in any order
DiscTables ==
    UNION {{t \in [1..n -> DiscRowPool] : \A i, j \in 1..n : t[i] = t[j] => i = j} : n \in 1..MaxDiscRows}

CuratedRow(name, cas, source) == [analyte_name |-> name, cas_rn |-> cas, cas_verified_source |-> source]

\* contents of pesticide_reference_curated.csv
CuratedTables ==
    {<<CuratedRow(s_DMP, s_casDMP, "manual_no_cid"), CuratedRow(s_ppDDE, s_casDDE, "pubchem_api")>>,
     <<CuratedRow(s_3PBA, <<>>, "cid_not_found")>>}

CdcRow(cas, class, source) ==
    [cas_rn |-> cas, chemical_class |-> class, chemical_subclass |-> "", data_source |-> source]

\* rows of fourth_report_pesticide_classes.csv
CdcRowPool ==
    {CdcRow(s_casDMP, "Organophosphate metabolite", "CDC Fourth Report"),
     CdcRow(s_casDMP, "Organophosphate metabolite", ""),
     CdcRow(s_casDDE_padded, "Organochlorine", "CDC Fourth Report")}

CdcTables == UNION {[1..n -> CdcRowPool] : n \in 0..MaxCdcRows}

StudiesIdle == NormIdle /\ MatchIdle /\ ExpandIdle /\ EnrichIdle /\ ApiIdle

StudiesUnchanged == UNCHANGED <<normIn, normOnce, normTwice, matchIn, matchOut, expand, net, enrichVars, apiVars>>

\* the curated CAS table is put in place for the builder
ProvideCurated ==
    /\ \E table \in CuratedTables : fs' = [fs EXCEPT ![CURATED_CSV] = File(table)]
    /\ fs' # fs
    /\ loaded' = NoCall
    /\ StudiesUnchanged

\* a run of build_minimal_pesticide_reference.py on some discovery table
RunBuilder ==
    /\ \E df_disc \in DiscTables :
          fs' = [fs EXCEPT ![REFERENCE_CSV] =
                    File(build_minimal_reference(df_disc,
                            IF Exists(fs, CURATED_CSV) THEN fs[CURATED_CSV].rows ELSE <<>>))]
    /\ loaded' = NoCall
    /\ StudiesUnchanged

\* a run of add_cdc_classifications.py on some CDC classification table
RunClassification ==
    /\ Exists(fs, REFERENCE_CSV)
    /\ \E cdc \in CdcTables :
          fs' = [fs EXCEPT ![REFERENCE_CSV_CLASSIFIED] =
                    File(WriteClassified(match_by_cas(load_minimal_reference(fs[REFERENCE_CSV].rows),
                                                      load_cdc_classifications(cdc))))]
    /\ loaded' = NoCall
    /\ StudiesUnchanged

\* a run of verify_minimal_reference_cas.py with its default arguments;
\* PubChem answers each name query in any of the ways it can
RunVerify ==
    /\ Exists(fs, REFERENCE_CSV)
    /\ LET df == load_minimal_reference(fs[REFERENCE_CSV].rows)
       IN  IF Unverified(df) = {}
           THEN fs' = fs
           ELSE \E answers \in [Unverified(df) -> VerifyAnswers] :
                   fs' = [fs EXCEPT ![REFERENCE_CSV] = File(WriteMinimal(ApplyVerification(df, answers)))]
    /\ loaded' = NoCall
    /\ StudiesUnchanged

\* load_analyte_reference() is called with the default path
LoadDefault ==
    /\ Load(REFERENCE_CSV)
    /\ StudiesUnchanged

Init ==
    /\ fs = [p \in AllPaths |-> Absent]
    /\ loaded = NoCall
    /\ StudiesIdle

Next == ProvideCurated \/ RunBuilder \/ RunClassification \/ LoadDefault

Spec == Init /\ [][Next]_vars

\* the pipeline after the builder: the builder has written the minimal
\* reference from some discovery table and curated table; CAS verification,
\* classification and loader calls follow in any order
InitVerify ==
    /\ \E df_disc \in DiscTables, curated \in CuratedTables \cup {<<>>} :
          fs = [p \in AllPaths |->
                   IF p = REFERENCE_CSV THEN File(build_minimal_reference(df_disc, curated))
                   ELSE IF p = CURATED_CSV /\ curated # <<>> THEN File(curated)
                   ELSE Absent]
    /\ loaded = NoCall
    /\ StudiesIdle

NextVerify == RunVerify \/ RunClassification \/ LoadDefault

SpecVerify == InitVerify /\ [][NextVerify]_vars

(***************************************************************************)
(* Claims about the pipeline files (checked under Spec)                    *)
(***************************************************************************)
RowsOf(p) == IF Exists(fs, p) THEN fs[p].rows ELSE <<>>

\* C1: every row of the classified reference, and every record the loader
\* returns, that has a chemical_class has a classification_source.
C1_NoFabrication ==
    /\ \A i \in 1..Len(RowsOf(REFERENCE_CSV_CLASSIFIED)) :
          RowsOf(REFERENCE_CSV_CLASSIFIED)[i].chemical_class # ""
             => RowsOf(REFERENCE_CSV_CLASSIFIED)[i].classification_source # ""
    /\ (loaded.called /\ loaded.outcome = "returned") =>
          \A i \in 1..Len(loaded.records) :
             loaded.records[i].chemical_class # "" => loaded.records[i].classification_source # ""

AnalyteNames(p) == {RowsOf(p)[i].analyte_name : i \in 1..Len(RowsOf(p))}

\* C2: the analyte names of the classified reference are a subset of the
\* analyte names of the minimal reference.
C2_SubsetInvariant ==
    (Exists(fs, REFERENCE_CSV) /\ Exists(fs, REFERENCE_CSV_CLASSIFIED))
        => AnalyteNames(REFERENCE_CSV_CLASSIFIED) \subseteq AnalyteNames(REFERENCE_CSV)

\* C11: a builder run marks a variable cas_verified_source = "pubchem_api"
\* only when the join found a CAS and a curated row holding that CAS is
\* itself marked "pubchem_api"; every other variable is written with empty
\* cas_rn and empty cas_verified_source.
C11_BuilderProvenance ==
    [][RunBuilder =>
          \A i \in 1..Len(fs'[REFERENCE_CSV].rows) :
             LET r == fs'[REFERENCE_CSV].rows[i]
                 curated == RowsOf(CURATED_CSV)
             IN  IF r.cas_verified_source = "pubchem_api"
                 THEN /\ r.cas_rn # <<>>
                      /\ \E k \in 1..Len(curated) :
                            /\ curated[k].cas_rn = r.cas_rn
                            /\ curated[k].cas_verified_source = "pubchem_api"
                 ELSE r.cas_rn = <<>> /\ r.cas_verified_source = ""]_vars

(***************************************************************************)
(* expand_synonyms_via_pubchem: one run of expand_reference_synonyms, a    *)
(* step per request sent to PubChem.  Times are in tenths of a second.     *)
(***************************************************************************)
\* the default of the retries parameter of fetch_pubchem_synonyms
retries == 2

\* time.sleep(0.3) between the lookups of two CAS numbers
RATE_LIMIT_SLEEP == 3

\* wait = 2**attempt seconds
Backoff(attempt) == 10 * (2 ^ attempt)

x_unknown == <<"u","n","k","n","o","w","n">>

x_na == <<"n","a">>

x_n_a == <<"n","/","a">>

x_NA == <<"N","A">>

\* the placeholder values of cas_rn that are not looked up
SkippedCas == {x_unknown, x_na, x_n_a, <<>>}

\* cas_to_analyte: the stripped cas_rn of each row that has one, with the
\* analyte_name of the last such row, in order of first appearance
RECURSIVE CasToAnalyte(_)
CasToAnalyte(rows) ==
    IF rows = <<>> THEN <<>>
    ELSE LET before == CasToAnalyte(SubSeq(rows, 1, Len(rows) - 1))
             row == rows[Len(rows)]
             cas == Strip(row.cas_rn)
         IN  IF cas # <<>> /\ Lower(cas) \notin SkippedCas
             THEN DictPut(before, cas, Strip(row.analyte_name))
             ELSE before

\* what one requests.get can bring: a synonym list (possibly without the
\* "Synonym" key), an empty InformationList, HTTP 404, another HTTP error
\* status, a network error (timeout, refused connection), a body that is
\* not JSON.  Where the installed requests raises its own JSONDecodeError,
\* a RequestException, for such a body, the code takes the branch of
\* "network_error".  A JSON body is an object laid out as PubChem documents
\* it; bodies of another shape are not among the responses.
SynonymLists == {<<>>, <<a_Mirex, a_Dechlorane>>, <<s_ppDDE>>}

Responses ==
    [kind : {"ok"}, synonyms : SynonymLists]
        \cup [kind : {"no_information", "http_404", "http_error", "network_error", "bad_json"},
              synonyms : {<<>>}]

TransientKinds == {"http_error", "network_error"}

Returns(value) == [done |-> TRUE, value |-> value, wait |-> 0]

Retry_OneMore(attempt) ==
    IF attempt <= retries
    THEN [done |-> FALSE, value |-> <<>>, wait |-> Backoff(attempt)]
    ELSE Returns(<<>>)

\* the elif / else of both except clauses: sleep and try again while
\* attempt < retries, give up with [] after that
Retry(attempt) ==
    IF attempt < retries
    THEN [done |-> FALSE, value |-> <<>>, wait |-> Backoff(attempt)]
    ELSE Returns(<<>>)

On404_Retry(attempt) == Retry(attempt)

\* status_code == 404: return [] at once
On404(attempt) == Returns(<<>>)

\* one iteration of the loop of fetch_pubchem_synonyms, given the response
FetchAttemptResult(attempt, resp) ==
    CASE resp.kind = "ok" -> Returns(resp.synonyms)
      [] resp.kind = "no_information" -> Returns(<<>>)
      [] resp.kind = "http_404" -> On404(attempt)
      [] resp.kind \in TransientKinds -> Retry(attempt)
      [] resp.kind = "bad_json" -> Returns(<<>>)

Request(cas) == [op |-> "request", cas |-> cas, tenths |-> 0]

Sleep(tenths) == [op |-> "sleep", cas |-> <<>>, tenths |-> tenths]

RateLimit_None(i, n) == <<>>

\* if i < len(cas_to_analyte): time.sleep(0.3)
RateLimit(i, n) == IF i < n THEN <<Sleep(RATE_LIMIT_SLEEP)>> ELSE <<>>

\* the rows of the synonym map, one per synonym, in the order of synonym_map
RECURSIVE SynonymRows(_, _)
SynonymRows(synonym_map, cas_to_analyte) ==
    IF synonym_map = <<>> THEN <<>>
    ELSE LET e == Head(synonym_map)
         IN  [k \in 1..Len(e.value) |->
                 [cas_rn |-> e.key, analyte_name |-> DictGet(cas_to_analyte, e.key),
                  synonym |-> e.value[k], synonym_normalized |-> Strip(Lower(e.value[k]))]]
             \o SynonymRows(Tail(synonym_map), cas_to_analyte)

\* expand_reference_synonyms starts: the minimal reference is read and the
\* CAS numbers to look up are collected
StartExpansion ==
    /\ expand.pc = "idle"
    /\ IF Exists(fs, REFERENCE_CSV)
       THEN LET cas_to_analyte == CasToAnalyte(fs[REFERENCE_CSV].rows)
            IN  expand' = [NoExpansion EXCEPT
                              !.pc = IF cas_to_analyte = <<>> THEN "write" ELSE "fetch",
                              !.cas_to_analyte = cas_to_analyte,
                              !.i = 1]
       ELSE expand' = [NoExpansion EXCEPT !.pc = "FileNotFoundError"]
    /\ net' = <<>>
    /\ UNCHANGED <<fs, loaded, normIn, normOnce, normTwice, matchIn, matchOut, enrichVars, apiVars>>

\* one request of fetch_pubchem_synonyms for the i-th CAS number; when the
\* function returns, the caller stores the result and sleeps before the
\* next lookup
FetchAttempt ==
    /\ expand.pc = "fetch"
    /\ \E resp \in Responses :
          LET cas == expand.cas_to_analyte[expand.i].key
              n == Len(expand.cas_to_analyte)
              r == FetchAttemptResult(expand.attempt, resp)
          IN  IF r.done
              THEN /\ expand' = [expand EXCEPT
                                    !.synonym_map = DictPut(@, cas, r.value),
                                    !.i = @ + 1,
                                    !.attempt = 0,
                                    !.response = resp.kind,
                                    !.pc = IF expand.i < n THEN "fetch" ELSE "write"]
                   /\ net' = Append(net, Request(cas)) \o RateLimit(expand.i, n)
              ELSE /\ expand' = [expand EXCEPT !.attempt = @ + 1, !.response = resp.kind]
                   /\ net' = Append(Append(net, Request(cas)), Sleep(r.wait))
    /\ UNCHANGED <<fs, loaded, normIn, normOnce, normTwice, matchIn, matchOut, enrichVars, apiVars>>

\* the synonym map is written to pubchem_synonyms.csv
WriteSynonymMap ==
    /\ expand.pc = "write"
    /\ fs' = [fs EXCEPT ![PUBCHEM_SYNONYMS_CSV] =
                 File(SynonymRows(expand.synonym_map, expand.cas_to_analyte))]
    /\ expand' = [expand EXCEPT !.pc = "done"]
    /\ UNCHANGED <<net, loaded, normIn, normOnce, normTwice, matchIn, matchOut, enrichVars, apiVars>>

\* a minimal reference row whose cas_rn is a placeholder
RowNA == MinimalRow(s_URX3PBA, s_3PBA, x_NA, "", 2007, 2009, 2)

ExpandRowPool == {Row3PBA, RowDMP, RowDDE, Row3PBAflat, RowNA}

\* the minimal references an expansion run may find
ExpandTables == UNION {[1..n -> ExpandRowPool] : n \in 0..MaxFileRows}

InitExpand ==
    /\ \E minimal \in {Absent} \cup {File(t) : t \in ExpandTables} :
          fs = [p \in AllPaths |-> IF p = REFERENCE_CSV THEN minimal ELSE Absent]
    /\ loaded = NoCall
    /\ NormIdle
    /\ MatchIdle
    /\ ExpandIdle
    /\ EnrichIdle
    /\ ApiIdle

NextExpand == StartExpansion \/ FetchAttempt \/ WriteSynonymMap

SpecExpand == InitExpand /\ [][NextExpand]_vars

\* the script keeps running until it ends
SpecExpandFair == SpecExpand /\ WF_vars(NextExpand)

(***************************************************************************)
(* Claims about the synonym expansion                                      *)
(***************************************************************************)
\* the CAS number being looked up
CurrentCas == expand.cas_to_analyte[expand.i].key

\* a step of FetchAttempt in which the response was of one of the kinds
Answered(kinds) == expand.pc = "fetch" /\ expand' # expand /\ expand'.response \in kinds

\* the lookup of the current CAS number returned value and the run went on
ReturnedToCaller(value) ==
    /\ expand'.i = expand.i + 1
    /\ expand'.attempt = 0
    /\ DictHas(expand'.synonym_map, CurrentCas)
    /\ DictGet(expand'.synonym_map, CurrentCas) = value
    /\ expand'.pc = IF expand.i < Len(expand.cas_to_analyte) THEN "fetch" ELSE "write"

\* C12: on HTTP 404 fetch_pubchem_synonyms returns [] at once: that one
\* request is the last for the CAS number, no backoff sleep follows it (only
\* the caller's pause before the next CAS number), nothing is raised, and
\* the run continues with the next CAS number.
C12_NotFoundReturnsEmpty ==
    [][Answered({"http_404"}) =>
          /\ ReturnedToCaller(<<>>)
          /\ net' = Append(net, Request(CurrentCas))
                      \o (IF expand.i < Len(expand.cas_to_analyte)
                          THEN <<Sleep(RATE_LIMIT_SLEEP)>> ELSE <<>>)]_vars

\* a 404 on a retry of the first CAS number, and the second being looked up
C12_Witness ==
    /\ expand.pc = "fetch"
    /\ expand.i = 2
    /\ expand.response = "http_404"
    /\ expand.synonym_map = <<[key |-> expand.cas_to_analyte[1].key, value |-> <<>>]>>
    /\ Len(net) = 4

RequestsFor(cas) == Cardinality({k \in 1..Len(net) : net[k] = Request(cas)})

\* the requests and sleeps of the lookup in progress, after a failed attempts
RetryTrail(cas, a) ==
    CASE a = 0 -> <<>>
      [] a = 1 -> <<Request(cas), Sleep(10)>>
      [] a = 2 -> <<Request(cas), Sleep(10), Request(cas), Sleep(20)>>
      [] OTHER -> <<"more than two retries">>

EndsWith(s, t) == Len(s) >= Len(t) /\ SubSeq(s, Len(s) - Len(t) + 1, Len(s)) = t

\* C13: a lookup sends at most retries + 1 requests; its retries wait 1 s
\* and then 2 s; when the last allowed request fails with a transient error
\* too, the lookup returns [] without raising; every lookup ends.
C13_BoundedRetry ==
    /\ [](\A k \in 1..Len(expand.cas_to_analyte) :
             RequestsFor(expand.cas_to_analyte[k].key) <= retries + 1)
    /\ [](expand.pc = "fetch" =>
             /\ expand.attempt <= retries
             /\ EndsWith(net, RetryTrail(CurrentCas, expand.attempt)))
    /\ [][(Answered(TransientKinds) /\ expand.attempt = retries) => ReturnedToCaller(<<>>)]_vars
    /\ \A k \in 1..(MaxFileRows + 1) :
          (expand.pc = "fetch" /\ expand.i = k) ~> ~(expand.pc = "fetch" /\ expand.i = k)

\* three transient failures in a row for the first CAS number
C13_Witness ==
    /\ expand.pc \in {"fetch", "write"}
    /\ expand.i = 2
    /\ expand.response \in TransientKinds
    /\ RequestsFor(expand.cas_to_analyte[1].key) = retries + 1
    /\ expand.synonym_map = <<[key |-> expand.cas_to_analyte[1].key, value |-> <<>>]>>

\* C14: every request but the last of a run is followed by a sleep before
\* the next request: at least 1 s before a retry for the same CAS number,
\* 0.3 s before the lookup of the next CAS number.
C14_RateLimiting ==
    \A k \in 1..(Len(net) - 1) :
       net[k].op = "request" =>
          /\ net[k + 1].op = "sleep"
          /\ net[k + 1].tenths >= RATE_LIMIT_SLEEP
          /\ (k + 2 <= Len(net) /\ net[k + 2].cas = net[k].cas) => net[k + 1].tenths >= 10

\* a retried lookup followed by the lookup of another CAS number
C14_Witness ==
    /\ Len(net) >= 5
    /\ net[1] = Request(expand.cas_to_analyte[1].key)
    /\ net[2] = Sleep(10)
    /\ net[3] = net[1]
    /\ net[4] = Sleep(RATE_LIMIT_SLEEP)
    /\ net[5] = Request(expand.cas_to_analyte[2].key)

(***************************************************************************)
(* Claims about the ranking of candidates (checked under SpecMatcher)      *)
(***************************************************************************)
SameKey(a, b) == FracEq(a.score, b.score) /\ a.match_method = b.match_method

\* sorted by score descending, then pubchem_synonym, exact_match, fuzzy
RankedByKey(cands) ==
    \A i, j \in 1..Len(cands) :
       i < j =>
          \/ FracGt(cands[i].score, cands[j].score)
          \/ /\ FracEq(cands[i].score, cands[j].score)
             /\ method_priority(cands[i].match_method) <= method_priority(cands[j].match_method)

\* the position of a candidate's CDC entry in the CDC list
CdcIndex(c) ==
    CHOOSE k \in 1..Len(matchIn.cdc_list) :
       /\ matchIn.cdc_list[k].cdc_name = c.cdc_name
       /\ \A m \in 1..(k - 1) : matchIn.cdc_list[m].cdc_name # c.cdc_name

\* the candidates in the order the three strategies append them
Appended ==
    LET tiers12 == SynonymBridgeTier(matchIn.analyte_name, matchIn.cdc_list, matchIn.synonym_map)
                      \o ExactNameTier(matchIn.analyte_name, matchIn.cdc_list, matchIn.synonym_map)
    IN  tiers12 \o FuzzyTier(matchIn.analyte_name, matchIn.cdc_list, matchIn.threshold, tiers12).found

CDC_CLASSIFICATIONS ==
    <<CdcEntry(c_mirex, "Organochlorine"),
      CdcEntry(c_dde, "Organochlorine"),
      CdcEntry(c_3_phenoxybenzoic_acid, "Pyrethroid metabolite"),
      CdcEntry(c_dimethylphosphate, "Organophosphate metabolite")>>

\* the threshold log_evidence passes to the matcher
EVIDENCE_THRESHOLD == Frac(25, 100)

\* load_pubchem_synonym_map: normalized synonym -> analyte names
load_pubchem_synonym_map(files) ==
    IF ~Exists(files, PUBCHEM_SYNONYMS_CSV) THEN <<>>
    ELSE LET rows == files[PUBCHEM_SYNONYMS_CSV].rows
             usable == {i \in 1..Len(rows) :
                          Strip(rows[i].synonym_normalized) # <<>> /\ Strip(rows[i].analyte_name) # <<>>}
             keys == {Strip(rows[i].synonym_normalized) : i \in usable}
         IN  [k \in keys |->
                 {Strip(rows[i].analyte_name) : i \in {j \in usable : Strip(rows[j].synonym_normalized) = k}}]

\* identify_unclassified: the records whose chemical_class is missing or empty
identify_unclassified(analytes) ==
    LET Unclassified(a) == Get(a, "chemical_class", "") = ""
    IN  SelectSeq(analytes, Unclassified)

DigitText == <<"0","1","2","3","4","5","6","7","8","9">>

\* f"{score:.3f}": the score rounded to thousandths, halves to the even digit
Format3(score) ==
    LET q == (1000 * score.num) \div score.den
        twice == 2 * ((1000 * score.num) % score.den)
        n == IF twice > score.den \/ (twice = score.den /\ q % 2 = 1) THEN q + 1 ELSE q
    IN  <<DigitText[(n \div 1000) + 1], ".", DigitText[((n \div 100) % 10) + 1],
          DigitText[((n \div 10) % 10) + 1], DigitText[(n % 10) + 1]>>

BestCandidate_Last(candidates) == candidates[Len(candidates)]

\* candidates[0]
BestCandidate(candidates) == candidates[1]

\* the row log_evidence writes for one unclassified record
EvidenceRow(analyte, cdc_list, synonym_map) ==
    LET analyte_name == Get(analyte, "analyte_name", <<>>)
        candidates == find_classification_candidates(analyte_name, cdc_list, synonym_map,
                                                     EVIDENCE_THRESHOLD).candidates
        known == [variable_name |-> Get(analyte, "variable_name", <<>>),
                  analyte_name |-> analyte_name,
                  normalized_name |-> _normalize_name(analyte_name)]
    IN  IF candidates # <<>>
        THEN known @@ [candidate_cdc_name |-> BestCandidate(candidates).cdc_name,
                       candidate_class |-> BestCandidate(candidates).chemical_class,
                       candidate_subclass |-> BestCandidate(candidates).chemical_subclass,
                       similarity_score |-> Format3(BestCandidate(candidates).score),
                       match_method |-> BestCandidate(candidates).match_method]
        ELSE known @@ [candidate_cdc_name |-> <<>>, candidate_class |-> "",
                       candidate_subclass |-> "", similarity_score |-> <<"0",".","0","0","0">>,
                       match_method |-> "none"]

\* the rows log_evidence writes
log_evidence(unclassified, cdc_list, synonym_map) ==
    [k \in 1..Len(unclassified) |-> EvidenceRow(unclassified[k], cdc_list, synonym_map)]

EvidenceWrite_Append(old, rows) == IF old.exists THEN File(old.rows \o rows) ELSE File(rows)

\* output_path.open("w"): the file is created or truncated
EvidenceWrite(old, rows) == File(rows)

\* main of enrich_classification_round.py, run on the current day
RunEnrichment ==
    /\ runs < MaxRunsPerDay
    /\ Exists(fs, REFERENCE_CSV)
    /\ runs' = runs + 1
    /\ UNCHANGED <<today, fs, loaded, normIn, normOnce, normTwice, matchIn, matchOut, expand, net, apiVars>>
    /\ LET analytes == fs[REFERENCE_CSV].rows
           synonym_map == load_pubchem_synonym_map(fs)
           unclassified == identify_unclassified(analytes)
       IN  evidence' =
              IF unclassified = <<>> THEN evidence
              ELSE [evidence EXCEPT ![today] =
                       EvidenceWrite(@, log_evidence(unclassified, CDC_CLASSIFICATIONS, synonym_map))]

\* the date changes
Midnight ==
    /\ today < MaxDays
    /\ today' = today + 1
    /\ runs' = 0
    /\ UNCHANGED <<evidence, fs, loaded, normIn, normOnce, normTwice, matchIn, matchOut, expand, net, apiVars>>

\* minimal references as the builder leaves them
s_LBXMIR == <<"L","B","X","M","I","R">>

s_casMirex == <<"2","3","8","5","-","8","5","-","5">>

RowMirex == MinimalRow(s_LBXMIR, a_Mirex, s_casMirex, "pubchem_api", 1999, 2003, 3)

EnrichTables == {<<RowDMP>>, <<RowMirex, RowDDE>>, <<Row3PBA, RowDMP, RowDDE>>}

y_DDE == <<"D","D","E">>

\* synonym maps as the expansion leaves them: none, one for DMP, one for
\* p,p'-DDE, one for Mirex
SynonymFiles ==
    {Absent,
     File(SynonymRows(<<[key |-> s_casMirex, value |-> <<a_Mirex, a_Dechlorane>>]>>,
                      <<[key |-> s_casMirex, value |-> a_Mirex]>>)),
     File(SynonymRows(<<[key |-> s_casDMP, value |-> <<a_Dimethylphosphate>>]>>,
                      <<[key |-> s_casDMP, value |-> s_DMP]>>)),
     File(SynonymRows(<<[key |-> s_casDDE, value |-> <<y_DDE, s_ppDDE>>]>>,
                      <<[key |-> s_casDDE, value |-> s_ppDDE]>>))}

\* the builder has run again on other discovery data
ReplaceMinimal ==
    /\ \E t \in EnrichTables : fs' = [fs EXCEPT ![REFERENCE_CSV] = File(t)]
    /\ fs' # fs
    /\ UNCHANGED <<loaded, normIn, normOnce, normTwice, matchIn, matchOut, expand, net, enrichVars, apiVars>>

\* the synonym expansion has run again, or its output was removed
ReplaceSynonymMap ==
    /\ \E f \in SynonymFiles : fs' = [fs EXCEPT ![PUBCHEM_SYNONYMS_CSV] = f]
    /\ fs' # fs
    /\ UNCHANGED <<loaded, normIn, normOnce, normTwice, matchIn, matchOut, expand, net, enrichVars, apiVars>>

InitEnrich ==
    /\ \E t \in EnrichTables :
          fs = [p \in AllPaths |-> IF p = REFERENCE_CSV THEN File(t) ELSE Absent]
    /\ loaded = NoCall
    /\ NormIdle
    /\ MatchIdle
    /\ ExpandIdle
    /\ EnrichIdle
    /\ ApiIdle

NextEnrich == RunEnrichment \/ Midnight \/ ReplaceMinimal \/ ReplaceSynonymMap

SpecEnrich == InitEnrich /\ [][NextEnrich]_vars

(***************************************************************************)
(* Claims about evidence logging (checked under SpecEnrich)                *)
(***************************************************************************)
\* the unclassified records a run started now would log
UnclassifiedNow == identify_unclassified(fs[REFERENCE_CSV].rows)

\* the ranked candidates of the k-th of them
CandidatesNow(k) ==
    find_classification_candidates(UnclassifiedNow[k].analyte_name, CDC_CLASSIFICATIONS,
                                   load_pubchem_synonym_map(fs), EVIDENCE_THRESHOLD).candidates

\* C15: a run writes one row per unclassified record, in input order: the
\* top-ranked candidate of the matcher with its score to three decimals,
\* or empty candidate fields, "0.000" and "none" when there is no candidate.
C15_OneRowPerRecord ==
    [][RunEnrichment =>
          LET rows == evidence'[today].rows
          IN  /\ evidence'[today].exists
              /\ Len(rows) = Len(UnclassifiedNow)
              /\ \A k \in 1..Len(rows) :
                    /\ rows[k].variable_name = UnclassifiedNow[k].variable_name
                    /\ rows[k].analyte_name = UnclassifiedNow[k].analyte_name
                    /\ IF CandidatesNow(k) # <<>>
                       THEN LET top == CandidatesNow(k)[1]
                            IN  /\ rows[k].candidate_cdc_name = top.cdc_name
                                /\ rows[k].candidate_class = top.chemical_class
                                /\ rows[k].candidate_subclass = top.chemical_subclass
                                /\ rows[k].similarity_score = Format3(top.score)
                                /\ rows[k].match_method = top.match_method
                                /\ \A m \in 1..Len(CandidatesNow(k)) :
                                      FracGeq(top.score, CandidatesNow(k)[m].score)
                       ELSE /\ rows[k].candidate_cdc_name = <<>>
                            /\ rows[k].candidate_class = ""
                            /\ rows[k].candidate_subclass = ""
                            /\ rows[k].similarity_score = <<"0",".","0","0","0">>
                            /\ rows[k].match_method = "none"]_vars

\* an evidence file with a synonym match, a fuzzy match below 1 and a
\* record without candidate, in the order of the minimal reference
C15_Witness ==
    /\ runs > 0
    /\ evidence[today].exists
    /\ Len(evidence[today].rows) = 3
    /\ evidence[today].rows[1].match_method = "none"
    /\ evidence[today].rows[2].match_method = "pubchem_synonym"
    /\ evidence[today].rows[3].match_method = "fuzzy"
    /\ evidence[today].rows[3].similarity_score = <<"0",".","4","2","9">>

C17_SoleWriterOfMinimal ==
    [][(RunVerify \/ RunClassification \/ LoadDefault)
          => fs'[REFERENCE_CSV] = fs[REFERENCE_CSV]]_vars

(***************************************************************************)
(* pesticide_context: suggest_analytes                                     *)
(***************************************************************************)
\* the fields of a PesticideAnalyte that the lookups read
Analyte(variable_name, analyte_name, cas_rn) ==
    [variable_name |-> variable_name, analyte_name |-> analyte_name, cas_rn |-> cas_rn]

\* best[label] = (score, label) when the label is new or the score is lower
KeepBest(best, label, score) ==
    IF ~DictHas(best, label) \/ score < DictGet(best, label)
    THEN DictPut(best, label, score)
    ELSE best

\* the loop over the analytes: labels that hold p, with their scores, in
\* the order of their first appearance
RECURSIVE BestScores(_, _, _)
BestScores(p, analytes, n) ==
    IF n = 0 THEN <<>>
    ELSE LET best == BestScores(p, analytes, n - 1)
             label == analytes[n].analyte_name
             norm_label == _normalize(label)
         IN  IF label = <<>> THEN best
             ELSE IF Contains(norm_label, p)
                  THEN KeepBest(best, label, Len(norm_label) - Len(p))
                  ELSE best

\* list.insert of e after every entry whose score is not greater
RECURSIVE InsertByScore(_, _)
InsertByScore(sorted, e) ==
    IF sorted = <<>> THEN <<e>>
    ELSE IF e.value < sorted[Len(sorted)].value
         THEN Append(InsertByScore(SubSeq(sorted, 1, Len(sorted) - 1), e), sorted[Len(sorted)])
         ELSE Append(sorted, e)

RECURSIVE SortedByScoreUpTo(_, _)
SortedByScoreUpTo(best, n) ==
    IF n = 0 THEN <<>> ELSE InsertByScore(SortedByScoreUpTo(best, n - 1), best[n])

SortedByScore_Unsorted(best) == best

\* sorted(best.values(), key=lambda x: x[0]): a stable sort on the score
SortedByScore(best) == SortedByScoreUpTo(best, Len(best))

\* seq[:limit]
SliceTo(seq, limit) ==
    IF limit >= 0
    THEN SubSeq(seq, 1, Min(limit, Len(seq)))
    ELSE SubSeq(seq, 1, Max(Len(seq) + limit, 0))

suggest_analytes(partial, analytes, limit) ==
    LET p == _normalize(partial)
    IN  IF p = <<>> THEN <<>>
        ELSE LET ordered == SortedByScore(BestScores(p, analytes, Len(analytes)))
                 head == SliceTo(ordered, limit)
             IN  [i \in 1..Len(head) |-> head[i].key]

n_DDE == <<"D","D","E">>

n_DDEsum == <<"D","D","E"," ","s","u","m">>

q_dash == <<"-">>

q_p == <<"p">>

\* reference records a lookup is given
RecordPool ==
    {Analyte(s_LBXPDE, s_ppDDE, s_casDDE),
     Analyte(s_LBXPDE, n_DDEsum, <<>>),
     Analyte(s_LBXMIR, a_Mirex, s_casMirex),
     Analyte(s_URXDMP, n_DDE, <<>>),
     Analyte(s_URX3PBA, <<>>, <<>>)}

RecordLists == UNION {[1..n -> RecordPool] : n \in 0..MaxAnalytes}

Partials == {<<>>, q_dash, c_dde, n_DDE, q_p}

Limits == 0..MaxLimit

(***************************************************************************)
(* pesticide_context: get_pesticide_info, find_analyte                     *)
(***************************************************************************)
SUGGESTION_LIMIT == 10

\* None where a record is expected
NoRecord == [none |-> TRUE]

ExactMatches_NameOnly(query, records) ==
    LET IsExact(r) == _normalize(r.analyte_name) = _normalize(query)
    IN  SelectSeq(records, IsExact)

\* the loop that fills exact: a record matches by its normalized name or by
\* its CAS number, when it has one
ExactMatches(query, records) ==
    LET IsExact(r) ==
            \/ _normalize(r.analyte_name) = _normalize(query)
            \/ (r.cas_rn # <<>> /\ r.cas_rn = query)
    IN  SelectSeq(records, IsExact)

\* the loop that fills suggestions
SubstringMatches(query, records) ==
    LET norm_query == _normalize(query)
        Holds(r) == norm_query # <<>> /\ Contains(_normalize(r.analyte_name), norm_query)
        hits == SelectSeq(records, Holds)
    IN  [i \in 1..Len(hits) |-> hits[i].analyte_name]

\* get_pesticide_info(query), given the records load_analyte_reference returns
get_pesticide_info(query, records) ==
    LET exact == ExactMatches(query, records)
    IN  IF Len(exact) = 1
        THEN [count |-> 1, match |-> exact[1], suggestions |-> <<>>]
        ELSE [count |-> Len(exact),
              match |-> IF exact # <<>> THEN exact[1] ELSE NoRecord,
              suggestions |-> SliceTo(SubstringMatches(query, records), SUGGESTION_LIMIT)]

\* find_analyte: the first record one of whose normalized name, CAS number
\* and variable name is the normalized query
find_analyte(query, analytes) ==
    LET qn == _normalize(query)
        Hit(a) == qn \in {_normalize(a.analyte_name), _normalize(a.cas_rn), _normalize(a.variable_name)}
        hits == SelectSeq(analytes, Hit)
    IN  IF hits # <<>> THEN hits[1] ELSE NoRecord

\* a row with neither a name nor a CAS number
RowBlank == MinimalRow(s_LBXMIR, <<>>, <<>>, "", 1999, 2003, 3)

ReferenceRowPool == {Row3PBA, Row3PBAflat, RowDMP, RowDDE, RowBlank}

\* reference files: up to MaxAnalytes rows in any order, and files that
\* list one analyte more often than suggestions are returned
ReferenceTables ==
    UNION {[1..n -> ReferenceRowPool] : n \in 0..MaxAnalytes}
    \cup {[i \in 1..n |-> RowDDE] : n \in {SUGGESTION_LIMIT, SUGGESTION_LIMIT + MaxAnalytes}}

\* what load_analyte_reference returns for them
LoadedRecords == {InjectPlaceholders(ParseRows(t)) : t \in ReferenceTables}

q_dmp == <<"d","m","p">>

Queries == {<<>>, q_dash, s_3PBA, q_dmp, s_casDMP, c_dde, s_ppDDE, s_URXDMP}

InfoCalls ==
    {[set |-> TRUE, op |-> "get_pesticide_info", query |-> query, records |-> records] :
        query \in Queries, records \in LoadedRecords}

FindCalls ==
    {[set |-> TRUE, op |-> "find_analyte", query |-> query, analytes |-> analytes] :
        query \in Queries, analytes \in LoadedRecords}

\* get_pesticide_info runs on the query and returns
GetInfo ==
    /\ apiCall.set
    /\ apiCall.op = "get_pesticide_info"
    /\ ~apiResult.set
    /\ apiResult' = [set |-> TRUE, value |-> get_pesticide_info(apiCall.query, apiCall.records)]
    /\ UNCHANGED <<fs, loaded, normIn, normOnce, normTwice, matchIn, matchOut, expand, net, enrichVars, apiCall>>

\* find_analyte runs on the query and returns
Find ==
    /\ apiCall.set
    /\ apiCall.op = "find_analyte"
    /\ ~apiResult.set
    /\ apiResult' = [set |-> TRUE, value |-> find_analyte(apiCall.query, apiCall.analytes)]
    /\ UNCHANGED <<fs, loaded, normIn, normOnce, normTwice, matchIn, matchOut, expand, net, enrichVars, apiCall>>

\* the calls of suggest_analytes a caller can make
SuggestCalls ==
    {[set |-> TRUE, op |-> "suggest_analytes", partial |-> partial, analytes |-> analytes, limit |-> limit] :
        partial \in Partials, analytes \in RecordLists, limit \in Limits}

\* suggest_analytes runs on the arguments of the call and returns
Suggest ==
    /\ apiCall.set
    /\ apiCall.op = "suggest_analytes"
    /\ ~apiResult.set
    /\ apiResult' = [set |-> TRUE,
                     value |-> suggest_analytes(apiCall.partial, apiCall.analytes, apiCall.limit)]
    /\ UNCHANGED <<fs, loaded, normIn, normOnce, normTwice, matchIn, matchOut, expand, net, enrichVars, apiCall>>

InitLookup ==
    /\ fs = [p \in AllPaths |-> Absent]
    /\ loaded = NoCall
    /\ NormIdle
    /\ MatchIdle
    /\ ExpandIdle
    /\ EnrichIdle
    /\ apiCall \in SuggestCalls \cup InfoCalls \cup FindCalls
    /\ apiResult = NoResult

NextLookup == Suggest \/ GetInfo \/ Find

SpecLookup == InitLookup /\ [][NextLookup]_vars

(***************************************************************************)
(* Claims on the lookups                                                   *)
(***************************************************************************)
Suggested == apiResult.set /\ apiCall.op = "suggest_analytes"

\* normalized length of a name minus the normalized length of the partial
Tightness(name) == Len(_normalize(name)) - Len(_normalize(apiCall.partial))

\* C19: suggest_analytes returns at most limit names, none of them twice,
\* each the analyte_name of a record whose normalized name holds the
\* normalized partial, in non-decreasing order of normalized name length
\* minus normalized partial length; a partial that normalizes to the empty
\* string gives the empty list.
C19_SuggestContract ==
    Suggested =>
        LET out == apiResult.value
            p == _normalize(apiCall.partial)
        IN  /\ Len(out) <= apiCall.limit
            /\ \A i, j \in 1..Len(out) : out[i] = out[j] => i = j
            /\ \A i \in 1..Len(out) :
                  \E k \in 1..Len(apiCall.analytes) :
                      /\ apiCall.analytes[k].analyte_name = out[i]
                      /\ p # <<>>
                      /\ Contains(_normalize(out[i]), p)
            /\ \A i, j \in 1..Len(out) : i < j => Tightness(out[i]) <= Tightness(out[j])
            /\ (p = <<>> => out = <<>>)

\* two names are returned, the looser one met first in the reference and a
\* third record repeating a name
C19_Witness ==
    /\ Suggested
    /\ Len(apiResult.value) = 2
    /\ Len(apiCall.analytes) = 3
    /\ apiCall.analytes[1].analyte_name = apiResult.value[2]
    /\ apiCall.analytes[3].analyte_name = apiResult.value[2]
    /\ Tightness(apiResult.value[1]) < Tightness(apiResult.value[2])

\* C20: in a non-empty result, the first name is no longer than any other
\* returned name.
C20_FirstIsShortest ==
    (Suggested /\ apiResult.value # <<>>) =>
        \A i \in 1..Len(apiResult.value) : Len(apiResult.value[1]) <= Len(apiResult.value[i])

Informed == apiResult.set /\ apiCall.op = "get_pesticide_info"

\* the positions of the loaded records that the query names: by normalized
\* analyte_name, or by a non-empty cas_rn equal to the query as given
NamedBy(query, records) ==
    {i \in 1..Len(records) :
        \/ _normalize(records[i].analyte_name) = _normalize(query)
        \/ (records[i].cas_rn # <<>> /\ records[i].cas_rn = query)}

\* C21: get_pesticide_info reports as count the number of loaded records
\* that the query names; with one such record it returns it as match with
\* no suggestions; otherwise match is the first such record, or None, and
\* suggestions holds at most 10 analyte names of loaded records whose
\* normalized form contains the normalized query.
C21_InfoContract ==
    Informed =>
        LET out == apiResult.value
            records == apiCall.records
            named == NamedBy(apiCall.query, records)
            first == CHOOSE i \in named : \A j \in named : i <= j
        IN  /\ out.count = Cardinality(named)
            /\ (out.count = 1 => out.match = records[first] /\ out.suggestions = <<>>)
            /\ (out.count # 1 =>
                  /\ out.match = (IF named = {} THEN NoRecord ELSE records[first])
                  /\ Len(out.suggestions) <= 10
                  /\ \A i \in 1..Len(out.suggestions) :
                        /\ \E k \in 1..Len(records) : records[k].analyte_name = out.suggestions[i]
                        /\ _normalize(apiCall.query) # <<>>
                        /\ Contains(_normalize(out.suggestions[i]), _normalize(apiCall.query)))

\* a query that names two records by name, with more records holding it
\* than suggestions are returned
C21_Witness ==
    /\ Informed
    /\ apiResult.value.count > 10
    /\ Len(apiResult.value.suggestions) = 10
    /\ apiResult.value.match = apiCall.records[1]

\* a CAS number that names one record
C21_WitnessCas ==
    /\ Informed
    /\ apiCall.query = s_casDMP
    /\ apiResult.value.count = 1
    /\ apiResult.value.match.analyte_name = s_DMP

Found == apiResult.set /\ apiCall.op = "find_analyte"

\* C30: for a query whose normalized form is empty, find_analyte returns
\* None, whatever the reference holds.
C30_EmptyQueryFindsNothing ==
    (Found /\ _normalize(apiCall.query) = <<>>) => apiResult.value = NoRecord

(***************************************************************************)
(* laboratory_pesticides: get_pesticide_metabolites.  The cycle is         *)
(* validated, the reference metadata is loaded, the candidate files are    *)
(* built and each is requested under its URL patterns until one answers   *)
(* with data.                                                              *)
(***************************************************************************)
\* str.split(sep) for a separator of one character
RECURSIVE SplitOn(_, _)
SplitOn(s, sep) ==
    IF \E i \in 1..Len(s) : s[i] = sep
    THEN LET n == CHOOSE i \in 1..Len(s) : s[i] = sep /\ \A j \in 1..(i - 1) : s[j] # sep
         IN  <<SubSeq(s, 1, n - 1)>> \o SplitOn(SubSeq(s, n + 1, Len(s)), sep)
    ELSE <<s>>

DigitValue(c) == CHOOSE d \in 0..9 : DigitText[d + 1] = c

RECURSIVE DigitsValue(_)
DigitsValue(digits) ==
    IF digits = <<>> THEN 0
    ELSE 10 * DigitsValue(SubSeq(digits, 1, Len(digits) - 1)) + DigitValue(digits[Len(digits)])

\* int(text): surrounding whitespace and one sign are accepted, then digits,
\* with single underscores between digits
ParseInt(text) ==
    LET t == Strip(text)
        signed == t # <<>> /\ t[1] \in {"+", "-"}
        body == IF signed THEN Tail(t) ELSE t
        IsDigit(c) == c \in DigitChars
        digits == SelectSeq(body, IsDigit)
        wellFormed ==
            /\ body # <<>>
            /\ \A i \in 1..Len(body) :
                  \/ body[i] \in DigitChars
                  \/ (body[i] = "_" /\ i > 1 /\ i < Len(body)
                        /\ body[i - 1] \in DigitChars /\ body[i + 1] \in DigitChars)
    IN  IF wellFormed
        THEN [ok |-> TRUE, value |-> IF signed /\ t[1] = "-" THEN 0 - DigitsValue(digits) ELSE DigitsValue(digits)]
        ELSE [ok |-> FALSE]

\* _parse_cycle_years: the two years, or the ValueError it raises
_parse_cycle_years(cycle) ==
    IF cycle = <<>> \/ ~(\E i \in 1..Len(cycle) : cycle[i] = "-")
    THEN [raised |-> "ValueError", message |-> "Invalid cycle format"]
    ELSE LET parts == SplitOn(cycle, "-")
         IN  IF Len(parts) # 2
             THEN [raised |-> "ValueError", message |-> "Invalid cycle format"]
             ELSE IF ParseInt(parts[1]).ok /\ ParseInt(parts[2]).ok
                  THEN [raised |-> "none", start_year |-> ParseInt(parts[1]).value,
                        end_year |-> ParseInt(parts[2]).value]
                  ELSE [raised |-> "ValueError", message |-> "Cannot parse years from cycle"]

cycle_suffix_map_Extra ==
    <<[key |-> <<"2","0","9","9","-","2","1","0","0">>, value |-> "M"]>>

\* the mapping of _get_cycle_letter_suffix, in the order it is written
cycle_suffix_map ==
    <<[key |-> <<"2","0","2","1","-","2","0","2","2">>, value |-> "L"],
      [key |-> <<"2","0","1","9","-","2","0","2","0">>, value |-> "K"],
      [key |-> <<"2","0","1","7","-","2","0","1","8">>, value |-> "J"],
      [key |-> <<"2","0","1","5","-","2","0","1","6">>, value |-> "I"],
      [key |-> <<"2","0","1","3","-","2","0","1","4">>, value |-> "H"],
      [key |-> <<"2","0","1","1","-","2","0","1","2">>, value |-> "G"],
      [key |-> <<"2","0","0","9","-","2","0","1","0">>, value |-> "F"],
      [key |-> <<"2","0","0","7","-","2","0","0","8">>, value |-> "E"],
      [key |-> <<"2","0","0","5","-","2","0","0","6">>, value |-> "D"],
      [key |-> <<"2","0","0","3","-","2","0","0","4">>, value |-> "C"],
      [key |-> <<"2","0","0","1","-","2","0","0","2">>, value |-> "B"],
      [key |-> <<"1","9","9","9","-","2","0","0","0">>, value |-> "A"]>>

\* cycle in cycle_suffix_map
InSuffixMap(cycle) == DictHas(cycle_suffix_map, cycle)

\* _get_cycle_letter_suffix: the letter, or the ValueError it raises
_get_cycle_letter_suffix(cycle) ==
    IF ~InSuffixMap(cycle)
    THEN [raised |-> "ValueError", message |-> "No letter suffix mapping"]
    ELSE [raised |-> "none", letter |-> DictGet(cycle_suffix_map, cycle)]

\* _build_pesticide_file_candidates: the components tried, in order
FileComponents == <<"UPHOPM", "OPD", "PP", "DOXPOL">>

_build_pesticide_file_candidates(cycle) ==
    IF _get_cycle_letter_suffix(cycle).raised # "none"
    THEN _get_cycle_letter_suffix(cycle)
    ELSE [raised |-> "none", candidates |-> FileComponents]

\* the URL patterns of _download_xpt_flexible, by the parts they are made of
UrlPatterns ==
    <<[base |-> "alt", dir |-> "cycle_year", lower |-> FALSE, ext |-> "xpt"],
      [base |-> "main", dir |-> "cycle", lower |-> FALSE, ext |-> "XPT"],
      [base |-> "main", dir |-> "cycle", lower |-> FALSE, ext |-> "xpt"],
      [base |-> "main", dir |-> "cycle", lower |-> TRUE, ext |-> "XPT"],
      [base |-> "main", dir |-> "cycle", lower |-> TRUE, ext |-> "xpt"],
      [base |-> "data", dir |-> "cycle", lower |-> FALSE, ext |-> "XPT"]>>

\* the URL of one request
Url(cycle, component, k) ==
    [pattern |-> UrlPatterns[k],
     dir |-> IF UrlPatterns[k].dir = "cycle_year" THEN SplitOn(cycle, "-")[1] ELSE cycle,
     component |-> component,
     letter |-> _get_cycle_letter_suffix(cycle).letter]

\* what a request can come to: a file with rows, a file without rows, a
\* status other than 200 or an exception
DownloadOutcomes == {"data", "empty", "failed"}

\* cycle strings outside the mapping
OtherCycles ==
    {<<>>,
     <<"i","n","v","a","l","i","d">>,
     <<"2","0","1","7">>,
     <<"2","0","1","7","-">>,
     <<"2","0","1","7","-","2","0","1","8","-","2","0","1","9">>,
     <<"2","0","9","9","-","2","1","0","0">>,
     <<"2","0","1","7","-","1","8">>,
     <<"2","0","1","8","-","2","0","1","7">>,
     <<" ","2","0","1","7","-","2","0","1","8">>,
     <<"2","0","1","7","-","2","0","1","8"," ">>,
     <<"+","2","0","1","7","-","2","0","1","8">>,
     <<"2","0","x","7","-","2","0","1","8">>,
     <<"2","_","0","1","7","-","2","0","1","8">>,
     <<"2","0","1","7"," ","2","0","1","8">>}

SupportedCycles == {cycle_suffix_map[i].key : i \in 1..Len(cycle_suffix_map)}

LabCalls ==
    {[set |-> TRUE, op |-> "get_pesticide_metabolites", cycle |-> cycle, pc |-> "validate",
      component |-> 0, pattern |-> 0, requests |-> 0, last_url |-> NoResult, sources |-> <<>>] :
        cycle \in SupportedCycles \cup OtherCycles}

LabFrame == UNCHANGED <<fs, loaded, normIn, normOnce, normTwice, matchIn, matchOut, expand, net, enrichVars>>

AtLab(pc) == apiCall.set /\ apiCall.op = "get_pesticide_metabolites" /\ apiCall.pc = pc

Raise(error) ==
    /\ apiCall' = [apiCall EXCEPT !.pc = "raised"]
    /\ apiResult' = [set |-> TRUE, raised |-> error.raised, message |-> error.message, value |-> "none"]

\* _parse_cycle_years(cycle)
ValidateCycle ==
    /\ AtLab("validate")
    /\ IF _parse_cycle_years(apiCall.cycle).raised # "none"
       THEN Raise(_parse_cycle_years(apiCall.cycle))
       ELSE apiCall' = [apiCall EXCEPT !.pc = "metadata"] /\ UNCHANGED apiResult
    /\ LabFrame

\* load_pesticide_reference and load_analyte_code_map: files are read,
\* nothing is requested
LoadMetadata ==
    /\ AtLab("metadata")
    /\ apiCall' = [apiCall EXCEPT !.pc = "candidates"]
    /\ UNCHANGED apiResult
    /\ LabFrame

\* _build_pesticide_file_candidates(cycle)
BuildCandidates ==
    /\ AtLab("candidates")
    /\ IF _build_pesticide_file_candidates(apiCall.cycle).raised # "none"
       THEN Raise(_build_pesticide_file_candidates(apiCall.cycle))
       ELSE apiCall' = [apiCall EXCEPT !.pc = "download", !.component = 1, !.pattern = 1]
            /\ UNCHANGED apiResult
    /\ LabFrame

\* the call goes on to the next candidate file, or to the end of the loop
NextComponent(call) ==
    IF call.component < Len(FileComponents)
    THEN [call EXCEPT !.component = @ + 1, !.pattern = 1]
    ELSE [call EXCEPT !.pc = "concat"]

\* one requests.get of _download_xpt_flexible and what follows from its
\* answer: data ends the patterns of the component, and the component counts
\* as a source when its columns hold analytes
Download ==
    /\ AtLab("download")
    /\ \E outcome \in DownloadOutcomes, usable \in BOOLEAN :
          LET sent == [apiCall EXCEPT !.requests = @ + 1,
                                      !.last_url = Url(apiCall.cycle, FileComponents[apiCall.component],
                                                       apiCall.pattern)]
          IN  apiCall' =
                 IF outcome = "data"
                 THEN NextComponent(IF usable
                                    THEN [sent EXCEPT !.sources = Append(@, FileComponents[apiCall.component])]
                                    ELSE sent)
                 ELSE IF apiCall.pattern < Len(UrlPatterns)
                      THEN [sent EXCEPT !.pattern = @ + 1]
                      ELSE NextComponent(sent)
    /\ UNCHANGED apiResult
    /\ LabFrame

\* the end of get_pesticide_metabolites: the sources concatenated, or an
\* empty frame
ReturnFrame ==
    /\ AtLab("concat")
    /\ apiCall' = [apiCall EXCEPT !.pc = "returned"]
    /\ apiResult' = [set |-> TRUE, raised |-> "none", message |-> "",
                     value |-> IF apiCall.sources = <<>> THEN "empty" ELSE "rows"]
    /\ LabFrame

InitLab ==
    /\ fs = [p \in AllPaths |-> Absent]
    /\ loaded = NoCall
    /\ NormIdle
    /\ MatchIdle
    /\ ExpandIdle
    /\ EnrichIdle
    /\ apiCall \in LabCalls
    /\ apiResult = NoResult

NextLab == ValidateCycle \/ LoadMetadata \/ BuildCandidates \/ Download \/ ReturnFrame

SpecLab == InitLab /\ [][NextLab]_vars

SpecLabFair == SpecLab /\ WF_vars(NextLab)

(***************************************************************************)
(* Claims about get_pesticide_metabolites                                  *)
(***************************************************************************)
InLab == apiCall.set /\ apiCall.op = "get_pesticide_metabolites"

\* a year of four digits as text
YearText(y) ==
    <<DigitText[(y \div 1000) + 1], DigitText[((y \div 100) % 10) + 1],
      DigitText[((y \div 10) % 10) + 1], DigitText[(y % 10) + 1]>>

\* the twelve cycles 1999-2000 ... 2021-2022 and their letters A ... L
TwelveCycles ==
    {<<YearText(1999 + 2 * k) \o <<"-">> \o YearText(2000 + 2 * k),
       <<"A","B","C","D","E","F","G","H","I","J","K","L">>[k + 1]>> : k \in 0..11}

IsSupported(cycle) == \E p \in TwelveCycles : p[1] = cycle

\* C22: a cycle that is malformed or not one of the twelve supported cycles
\* makes get_pesticide_metabolites raise ValueError with no request issued
\* and no data returned; a supported cycle maps to its letter and never
\* raises.
C22_FailFastOnBadCycle ==
    /\ [](InLab /\ ~IsSupported(apiCall.cycle)
            => /\ apiCall.requests = 0
               /\ apiCall.pc \in {"validate", "metadata", "candidates", "raised"}
               /\ (apiResult.set => apiResult.raised = "ValueError" /\ apiResult.value = "none"))
    /\ [](InLab /\ IsSupported(apiCall.cycle)
            => /\ (apiResult.set => apiResult.raised = "none")
               /\ (apiCall.requests > 0 =>
                     <<apiCall.cycle, apiCall.last_url.letter>> \in TwelveCycles))
    /\ (InLab /\ ~IsSupported(apiCall.cycle) ~> apiResult.set)

\* an unknown cycle of the right form is turned down where the candidate
\* files are built
C22_Witness ==
    /\ InLab
    /\ apiCall.cycle = <<"2","0","9","9","-","2","1","0","0">>
    /\ apiCall.pc = "raised"
    /\ apiResult.message = "No letter suffix mapping"
    /\ apiCall.requests = 0

(***************************************************************************)
(* Score study: _compute_similarity_score is applied to pairs of names.    *)
(***************************************************************************)
t_DDE_tail == <<"'","-","D","D","E">>

t_Mir == <<"M","i","r">>

ScoreTexts == AnalytePool \cup {<<>>, c_mirex, c_dde, t_DDE_tail, t_Mir}

ScoreCalls ==
    {[set |-> TRUE, op |-> "_compute_similarity_score", query |-> query, candidate |-> candidate] :
        query \in ScoreTexts, candidate \in ScoreTexts}

\* _compute_similarity_score runs on the pair and returns
ComputeScore ==
    /\ apiCall.set
    /\ apiCall.op = "_compute_similarity_score"
    /\ ~apiResult.set
    /\ apiResult' = [set |-> TRUE, value |-> _compute_similarity_score(apiCall.query, apiCall.candidate)]
    /\ UNCHANGED <<fs, loaded, normIn, normOnce, normTwice, matchIn, matchOut, expand, net, enrichVars, apiCall>>

InitScore ==
    /\ fs = [p \in AllPaths |-> Absent]
    /\ loaded = NoCall
    /\ NormIdle
    /\ MatchIdle
    /\ ExpandIdle
    /\ EnrichIdle
    /\ apiCall \in ScoreCalls
    /\ apiResult = NoResult

NextScore == ComputeScore

SpecScore == InitScore /\ [][NextScore]_vars

(***************************************************************************)
(* Claims about the scores and the candidate lists                         *)
(***************************************************************************)
\* C23: every fuzzy candidate of a returned list has a score of at least
\* the threshold and below 1; a score of 1 is carried by pubchem_synonym
\* and exact_match candidates only.
C23_FuzzyScoreRange ==
    matchOut.set =>
        \A i \in 1..Len(matchOut.candidates) :
            LET c == matchOut.candidates[i]
            IN  /\ c.match_method = "fuzzy"
                     => FracGeq(c.score, matchIn.threshold) /\ FracGt(Frac(1, 1), c.score)
                /\ FracEq(c.score, Frac(1, 1)) => c.match_method \in {"pubchem_synonym", "exact_match"}

ScoredPair == apiResult.set /\ apiCall.op = "_compute_similarity_score"

\* y occurs in x and is not x
StrictSubstring(y, x) == y # x /\ (y = <<>> \/ Contains(x, y))

\* C24: the score of a name with itself is 1, and the score of a name x
\* with a strict substring y of it is len(y)/len(x).
C24_ScoreValues ==
    ScoredPair =>
        /\ apiCall.query = apiCall.candidate => FracEq(apiResult.value, Frac(1, 1))
        /\ StrictSubstring(apiCall.candidate, apiCall.query)
              => FracEq(apiResult.value, Frac(Len(apiCall.candidate), Len(apiCall.query)))

\* the number of candidates, and of CDC entries, under one CDC name
TimesReported(name) ==
    Cardinality({i \in 1..Len(matchOut.candidates) : matchOut.candidates[i].cdc_name = name})

TimesListed(name) ==
    Cardinality({i \in 1..Len(matchIn.cdc_list) : matchIn.cdc_list[i].cdc_name = name})

\* C27: the returned list holds each entry of the CDC list at most once: no
\* CDC name is reported more often than the CDC list holds it.
C27_EachEntryOnce ==
    matchOut.set =>
        \A i \in 1..Len(matchIn.cdc_list) :
            TimesReported(matchIn.cdc_list[i].cdc_name) <= TimesListed(matchIn.cdc_list[i].cdc_name)

(***************************************************************************)
(* Join study: the builder joins curated CAS numbers onto the variables of *)
(* a discovery table.                                                      *)
(***************************************************************************)
d_unit_only == <<"(","u","g","/","L",")">>

d_PBA_ugL == <<"P","B","A"," ","(","u","g","/","L",")">>

s_URXUNK == <<"U","R","X","U","N","K">>

s_dash == <<"-">>

JoinDiscRows ==
    {DiscRow(s_URXDMP, d_DMP_ugL, f_OPD_E, 2007),
     DiscRow(s_URXDMP, d_Dimethylphosphate_ugL, f_OPD_E, 2009),
     DiscRow(s_URX3PBA, d_3PBA_ugL, f_UPHOPM_F, 2009),
     DiscRow(s_URX3PBA, d_PBA_ugL, f_UPHOPM_F, 2009),
     DiscRow(s_LBXPDE, d_ppDDE_lipid, f_PSTPOL_D, 2005),
     DiscRow(s_URXUNK, d_unit_only, f_UPHOPM_F, 2009)}

JoinCuratedRows ==
    {CuratedRow(s_DMP, s_casDMP, "manual_no_cid"),
     CuratedRow(q_dmp, s_casDDE, "pubchem_api"),
     CuratedRow(s_ppDDE, s_casDDE, "pubchem_api"),
     CuratedRow(s_3PBA, <<>>, "cid_not_found"),
     CuratedRow(s_3PBAflat, s_cas3PBA, "pubchem_api"),
     CuratedRow(s_URXDMP, s_cas3PBA, "pubchem_api"),
     CuratedRow(s_dash, s_casMirex, "pubchem_api")}

JoinCuratedTables == UNION {[1..n -> JoinCuratedRows] : n \in 0..MaxCuratedRows}

JoinCalls ==
    {[set |-> TRUE, op |-> "build_minimal_reference", df_disc |-> <<d>>, curated |-> curated] :
        d \in JoinDiscRows, curated \in JoinCuratedTables}

\* the builder runs on the discovery table and the curated table
Join ==
    /\ apiCall.set
    /\ apiCall.op = "build_minimal_reference"
    /\ ~apiResult.set
    /\ apiResult' = [set |-> TRUE, value |-> build_minimal_reference(apiCall.df_disc, apiCall.curated)]
    /\ UNCHANGED <<fs, loaded, normIn, normOnce, normTwice, matchIn, matchOut, expand, net, enrichVars, apiCall>>

InitJoin ==
    /\ fs = [p \in AllPaths |-> Absent]
    /\ loaded = NoCall
    /\ NormIdle
    /\ MatchIdle
    /\ ExpandIdle
    /\ EnrichIdle
    /\ apiCall \in JoinCalls
    /\ apiResult = NoResult

NextJoin == Join

SpecJoin == InitJoin /\ [][NextJoin]_vars

(***************************************************************************)
(* Claims about the CAS join of the builder (checked under SpecJoin)       *)
(***************************************************************************)
Joined == apiResult.set /\ apiCall.op = "build_minimal_reference"

\* the curated table as the builder reads it, and the curated map
CuratedNow == ReadCurated(apiCall.curated)

CuratedMapNow == CasMapWithNormalized(CasMapByName(CuratedNow), CuratedNow)

\* a CAS number of the curated map as it is written: nothing for a missing one
Written(cas) == IF IsNaN(cas) THEN <<>> ELSE cas

\* one normalized name contains the other
Overlap(a, b) == Contains(a, b) \/ Contains(b, a)

\* the curated rows, in table order, whose normalized name overlaps name
OverlappingRows(name) ==
    {i \in 1..Len(CuratedNow) :
        Overlap(_normalize_for_matching(CuratedNow[i].analyte_name), _normalize_for_matching(name))}

\* the CAS number the three strategies give for a variable, in their order
JoinedCas(variable_name, analyte_name) ==
    LET norm == _normalize_for_matching(analyte_name)
        rows == OverlappingRows(analyte_name)
        first == CHOOSE i \in rows : \A j \in rows : i <= j
    IN  IF DictHas(CuratedMapNow, variable_name) THEN Written(DictGet(CuratedMapNow, variable_name))
        ELSE IF DictHas(CuratedMapNow, norm) THEN Written(DictGet(CuratedMapNow, norm))
        ELSE IF rows # {} THEN Written(DictGet(CuratedMapNow, CuratedNow[first].analyte_name))
        ELSE <<>>

\* C25: for each variable the builder tries the variable_name as a key of
\* the curated map, then the normalized analyte name as a key, then the
\* first curated name, in table order, whose normalized form contains or
\* is contained in the normalized analyte name; the variable gets the CAS
\* number of the first strategy that hits and none when none hits.
C25_CasJoinOrder ==
    Joined =>
        \A k \in 1..Len(apiResult.value) :
            apiResult.value[k].cas_rn =
                JoinedCas(apiResult.value[k].variable_name, apiResult.value[k].analyte_name)

\* a curated table names the variable in one row and its analyte in
\* another: the row of the variable_name decides
C25_Witness ==
    /\ Joined
    /\ Len(apiCall.curated) = 2
    /\ apiCall.curated[1].analyte_name = apiResult.value[1].analyte_name
    /\ apiCall.curated[2].analyte_name = apiResult.value[1].variable_name
    /\ apiResult.value[1].cas_rn = apiCall.curated[2].cas_rn
    /\ apiCall.curated[1].cas_rn # apiCall.curated[2].cas_rn

\* a partial match decides, by the second row of the curated table
C25_WitnessPartial ==
    /\ Joined
    /\ Len(apiCall.curated) = 2
    /\ OverlappingRows(apiResult.value[1].analyte_name) = {2}
    /\ ~DictHas(CuratedMapNow, _normalize_for_matching(apiResult.value[1].analyte_name))
    /\ apiResult.value[1].cas_rn = apiCall.curated[2].cas_rn
    /\ apiResult.value[1].cas_rn # <<>>

\* C28: a CAS number is joined by partial match only on a name overlap: a
\* variable whose normalized analyte name is empty gets no CAS number and
\* no source, and a curated name whose normalized form is empty gives its
\* CAS number to no variable.
C28_NoMatchOnEmptyNames ==
    Joined =>
        \A k \in 1..Len(apiResult.value) :
            LET r == apiResult.value[k]
                norm == _normalize_for_matching(r.analyte_name)
            IN  /\ norm = <<>> => r.cas_rn = <<>> /\ r.cas_verified_source = ""
                /\ r.cas_rn # <<>> =>
                      \/ DictHas(CuratedMapNow, r.variable_name)
                      \/ \E i \in OverlappingRows(r.analyte_name) :
                            _normalize_for_matching(CuratedNow[i].analyte_name) # <<>>

(***************************************************************************)
(* Claim about the synonym index (checked under SpecExpand)                *)
(***************************************************************************)
\* the rows of pubchem_synonyms.csv
SynonymFileRows ==
    IF Exists(fs, PUBCHEM_SYNONYMS_CSV) THEN fs[PUBCHEM_SYNONYMS_CSV].rows ELSE <<>>

\* C26: every synonym the expansion writes is stored under the key the
\* matcher looks up: its synonym_normalized is _normalize_name of the
\* synonym, and the index the matcher loads has that key when it is not
\* empty.
C26_OneNormalizer ==
    \A i \in 1..Len(SynonymFileRows) :
        LET row == SynonymFileRows[i]
            key == _normalize_name(row.synonym)
        IN  /\ row.synonym_normalized = key
            /\ key # <<>> /\ Strip(row.analyte_name) # <<>> =>
                  key \in DOMAIN load_pubchem_synonym_map(fs)

(***************************************************************************)
(* Verification study: one run of verify_minimal_reference_cas on a        *)
(* minimal reference the builder wrote, with the answers of PubChem.       *)
(***************************************************************************)
d_ppDDE_adjusted ==
    <<"p",",","p","'","-","D","D","E"," ","L","i","p","i","d"," ","A","d","j","u","s","t","e","d">>

VerifyDiscRows == DiscRowPool \cup {DiscRow(s_LBXPDE, d_ppDDE_adjusted, f_PSTPOL_D, 2005)}

VerifyDiscTables ==
    UNION {{t \in [1..n -> VerifyDiscRows] : \A i, j \in 1..n : t[i] = t[j] => i = j} : n \in 1..MaxDiscRows}

\* the minimal references the builder writes
VerifyFiles ==
    {build_minimal_reference(df_disc, curated) :
        df_disc \in VerifyDiscTables, curated \in CuratedTables \cup {<<>>}}

VerifyCalls ==
    UNION {{[set |-> TRUE, op |-> "verify_minimal_reference_cas", rows |-> rows, answers |-> answers] :
                answers \in [Unverified(load_minimal_reference(rows)) -> VerifyAnswers]} :
           rows \in VerifyFiles}

\* main of verify_minimal_reference_cas: nothing is written when every
\* row has a CAS number
Verify ==
    /\ apiCall.set
    /\ apiCall.op = "verify_minimal_reference_cas"
    /\ ~apiResult.set
    /\ LET df == load_minimal_reference(apiCall.rows)
       IN  apiResult' =
               IF Unverified(df) = {}
               THEN [set |-> TRUE, written |-> FALSE, value |-> apiCall.rows]
               ELSE [set |-> TRUE, written |-> TRUE,
                     value |-> WriteMinimal(ApplyVerification(df, apiCall.answers))]
    /\ UNCHANGED <<fs, loaded, normIn, normOnce, normTwice, matchIn, matchOut, expand, net, enrichVars, apiCall>>

InitVerifyRun ==
    /\ fs = [p \in AllPaths |-> Absent]
    /\ loaded = NoCall
    /\ NormIdle
    /\ MatchIdle
    /\ ExpandIdle
    /\ EnrichIdle
    /\ apiCall \in VerifyCalls
    /\ apiResult = NoResult

NextVerifyRun == Verify

SpecVerifyRun == InitVerifyRun /\ [][NextVerifyRun]_vars

(***************************************************************************)
(* Claim about the verification run (checked under SpecVerifyRun)          *)
(***************************************************************************)
Verified == apiResult.set /\ apiCall.op = "verify_minimal_reference_cas"

\* row i of the file has the same cas_rn and cas_verified_source after the run
SameCas(i) ==
    /\ apiResult.value[i].cas_rn = apiCall.rows[i].cas_rn
    /\ apiResult.value[i].cas_verified_source = apiCall.rows[i].cas_verified_source

\* PubChem answered the query of row i with the CAS number of a single compound
SingleCompound(i) ==
    /\ i \in DOMAIN apiCall.answers
    /\ apiCall.answers[i].status = "pubchem_api"
    /\ apiCall.answers[i].cas_rn # <<>>

\* C29: a run of the verification changes cas_rn and cas_verified_source
\* only of rows whose cas_rn was empty, and only to the CAS number PubChem
\* gave for a single compound, with source "pubchem_api"; rows that had a
\* CAS number and rows whose query was ambiguous or found nothing are
\* written back as they were.
C29_VerifyFrame ==
    Verified =>
        /\ Len(apiResult.value) = Len(apiCall.rows)
        /\ \A i \in 1..Len(apiCall.rows) :
              /\ apiCall.rows[i].cas_rn # <<>> => SameCas(i)
              /\ ~SingleCompound(i) => SameCas(i)
              /\ ~SameCas(i) =>
                    /\ apiCall.rows[i].cas_rn = <<>>
                    /\ apiResult.value[i].cas_rn = apiCall.answers[i].cas_rn
                    /\ apiResult.value[i].cas_verified_source = "pubchem_api"

\* one row keeps its CAS number, another gets the one PubChem gave
C29_Witness ==
    /\ Verified
    /\ \E i, j \in 1..Len(apiCall.rows) :
          /\ apiCall.rows[i].cas_rn # <<>>
          /\ SameCas(i)
          /\ apiCall.rows[j].cas_rn = <<>>
          /\ SingleCompound(j)
          /\ apiResult.value[j].cas_rn = apiCall.answers[j].cas_rn
          /\ apiResult.value[j].cas_verified_source = "pubchem_api"

\* a row without CAS number whose query was ambiguous is written back as it
\* was while another row is updated
C29_WitnessAmbiguous ==
    /\ Verified
    /\ apiResult.written
    /\ \E i, j \in 1..Len(apiCall.rows) :
          /\ apiCall.rows[i].cas_rn = <<>>
          /\ apiCall.answers[i].status = "ambiguous"
          /\ SameCas(i)
          /\ ~SameCas(j)

====
